---- MODULE Spec2Model ----
(***************************************************************************)
(* Heat pump cost savings model (reports/ny_aeba_savings/model.py).        *)
(*                                                                         *)
(* A table (polars DataFrame) is a record [columns, rows]: columns is the  *)
(* set of column names, rows a sequence of functions from column names to  *)
(* values.  A null cell is a column name that is absent from the DOMAIN of *)
(* the row.                                                                *)
(*                                                                         *)
(* Numbers are integers.  Quantities the program keeps as fractions        *)
(* (rates, percentages, efficiencies, prices per unit, weights) are held   *)
(* in hundredths: x * f is Pct(x, f) and x / f is DivPct(x, f).            *)
(***************************************************************************)
EXTENDS Integers, Sequences, FiniteSets, TLC

VARIABLES
    cfg,        \* the configuration the loaders read (data/*.yaml)
    overrides,  \* the overrides argument of the calls of this run
    called,     \* the function invoked last ("none" before the first call)
    stage,      \* the innermost function of that call that has returned:
                \* every stage function first calls the stage before it
    result,     \* the table that function returned; it is the result of the
                \* call when stage = called
    last,       \* the result of the call before, when the same call is made
                \* a second time; NoTable otherwise
    harness,    \* the call of _recalculate_workbook of the validation
                \* harness (tests/conftest.py): its position, its files, the
                \* finished engine process and what the call returned or
                \* raised; or the test that uses the recalculate factory
    download    \* the run of main() of a downloader (il_npa/utils): its
                \* position, its loop variables, the file and the exit code

vars == <<cfg, overrides, called, stage, result, last, harness, download>>

-----------------------------------------------------------------------------
(* Arithmetic helpers                                                      *)

Pct(x, f) ==
    (x * f) \div 100

DivPct(x, f) ==
    (x * 100) \div f

Min2(a, b) ==
    IF a <= b THEN a ELSE b

Max2(a, b) ==
    IF a >= b THEN a ELSE b

RECURSIVE SumSeq(_)
SumSeq(s) ==
    IF s = <<>> THEN 0 ELSE Head(s) + SumSeq(Tail(s))

\* Expr.sqrt(): the integer part of the square root
RECURSIVE SqrtFrom(_, _)
SqrtFrom(n, k) ==
    IF (k + 1) * (k + 1) > n THEN k ELSE SqrtFrom(n, k + 1)

Sqrt(n) ==
    SqrtFrom(n, 0)

\* (1 + rate)^n in hundredths, rate in hundredths
RECURSIVE PowPct(_, _)
PowPct(base, n) ==
    IF n = 0 THEN 100 ELSE Pct(PowPct(base, n - 1), base)

-----------------------------------------------------------------------------
(* Tables                                                                  *)

NoTable ==
    [columns |-> {}, rows |-> <<>>]

\* a sequence built row by row, as the tuple of its rows
Rows(f) ==
    f \o <<>>

\* the rows that satisfy P, in order (DataFrame.filter)
FilterSeq(s, P(_)) ==
    SelectSeq(s, P)

\* DataFrame.with_columns: every expression is evaluated on the input row;
\* a result replaces the column of the same name or is appended
WithColumns(df, newcols, F(_)) ==
    [columns |-> df.columns \cup newcols,
     rows    |-> Rows([i \in DOMAIN df.rows |-> F(df.rows[i]) @@ df.rows[i]])]

\* left.join(right, on="zone") with right a function zone -> record of the
\* joined columns (one row per zone); how="inner" drops the rows whose zone
\* has no match, how="left" leaves the joined columns null there.  The rows
\* keep the order of the left table.
JoinOnZone(df, right, newcols, how) ==
    LET matched(r) == r["zone"] \in DOMAIN right
        kept == IF how = "inner" THEN FilterSeq(df.rows, matched) ELSE df.rows
    IN  [columns |-> df.columns \cup newcols,
         rows    |-> Rows([i \in DOMAIN kept |->
                        IF matched(kept[i])
                        THEN kept[i] @@ right[kept[i]["zone"]]
                        ELSE kept[i]])]

-----------------------------------------------------------------------------
(* Configuration: the contents of data/*.yaml, as the loaders return them  *)

FUEL_PRICE_START_YEAR ==
    2020

FUELS ==
    <<"natural_gas", "propane">>

ZONES ==
    <<"4", "5", "6">>

TECHS ==
    <<"ccASHP", "GSHP">>

\* building_params.yaml: one record per zone, defaults merged in
load_building_params(c) ==
    [z \in {"4", "5", "6"} |->
        [floor_area_sf |-> 3200,
         stories |-> 2,
         wall_height_ft |-> 8,
         window_door_pct |-> 15,
         above_grade_basement_wall_height_ft |-> 2,
         below_grade_basement_wall_height_ft |-> 6,
         r_attic |-> IF z = "4" THEN 40 ELSE 50,
         r_walls |-> 20,
         r_windows_doors |-> 3,
         r_basement_wall |-> IF z = "4" THEN 10 ELSE 15,
         slab_f_factor |-> 50,
         ach50 |-> 3,
         hdd |-> CASE z = "4" -> 5000 [] z = "5" -> 6500 [] OTHER -> 8000,
         furnace_electrical_usage_kwh_per_mmbtu |-> 9]]

\* model_params.yaml
model_params_yaml ==
    [mortgage_rate |-> 6,
     mortgage_term_years |-> 30,
     discount_rate |-> 4,
     analysis_period_years |-> 15,
     indoor_design_temp_f |-> 70,
     sizing_scale_up_factor |-> 125,
     internal_heat_gains_btu |-> 2000,
     epa_hdd_adjustment |-> 500,
     propane_tank_cost |-> 2000,
     ny_geo_tax_credit_rate |-> 25,
     ny_geo_tax_credit_cap |-> 10000,
     federal_25d_rate |-> 30]

\* load_model_params: the file as it is, or, in the configurations that say
\* so, a file without the key propane_tank_cost; the loader returns what
\* the file holds
load_model_params(c) ==
    IF c.model_params = "all"
    THEN model_params_yaml
    ELSE [k \in DOMAIN model_params_yaml \ {"propane_tank_cost"} |->
            model_params_yaml[k]]

\* operating_params.yaml
load_operating_params(c) ==
    [maintenance |-> [furnace |-> 150, ac |-> 100, gas_water_heater |-> 50,
                      ccashp |-> 200, gshp |-> 120, hpwh |-> 60],
     efficiency |-> [furnace_afue |-> 95, ccashp_hspf2 |-> 9, gshp_cop |-> 360],
     gas_water_heater |-> [fuel_usage_rate_nat_gas |-> 4,
                           fuel_usage_rate_propane |-> 40,
                           daily_operating_hours |-> 3],
     hpwh |-> [daily_kwh |-> 3],
     fuel_content |-> [natural_gas_btu_per_mcf |-> 1000000,
                       propane_btu_per_gallon |-> 90000]]

\* equipment.yaml: one record per device entry, the prices list dropped
load_equipment(c) ==
    <<[device |-> "furnace", avg_price |-> 3000],
      [device |-> "ac", avg_price |-> 4000],
      [device |-> "gas_water_heater", avg_price |-> 1000],
      [device |-> "ccASHP", zones |-> {"4"}, avg_price |-> 7000],
      [device |-> "ccASHP", zones |-> {"5", "6"}, avg_price |-> 9000],
      [device |-> "GSHP", size |-> <<"5", "ton", "horizontal", "loop">>,
       avg_price |-> c.gshp_price],
      [device |-> "hpwh", avg_price |-> 2500]>>

\* fuel_prices.yaml: monthly winter records (electricity cents/kWh,
\* natural gas $/mcf, propane cents/gallon), each in hundredths of its unit
fuel_price_records(c) ==
    <<[fuel |-> "electricity", year |-> 2019, price |-> 1800],
      [fuel |-> "electricity", year |-> 2020, price |-> 2000],
      [fuel |-> "electricity", year |-> 2021, price |-> 2200],
      [fuel |-> "natural_gas", year |-> 2019, price |-> 900],
      [fuel |-> "natural_gas", year |-> 2020, price |-> 1100],
      [fuel |-> "natural_gas", year |-> 2021, price |-> 1300],
      [fuel |-> "propane", year |-> 2020, price |-> 28000],
      [fuel |-> "propane", year |-> 2021, price |-> 32000]>>

\* load_fuel_prices: mean price per fuel over the records with
\* year >= start_year
load_fuel_prices(c, start_year) ==
    LET recs == fuel_price_records(c)
        of(f) == LET P(r) == r.fuel = f /\ r.year >= start_year
                 IN  FilterSeq(recs, P)
        prices(f) == [i \in DOMAIN of(f) |-> of(f)[i].price]
    IN  [f \in {"electricity", "natural_gas", "propane"} |->
            [avg_price |-> SumSeq(prices(f)) \div Len(of(f)),
             n_months  |-> Len(of(f))]]

\* counties.yaml: gas_utility is absent (null) where there is no gas service
counties_yaml ==
    <<[county |-> "Kings", electric_utility |-> "ConEd",
       gas_utility |-> "NationalGrid", zone |-> "4",
       design_temp_f |-> 15, new_construction_share |-> 30],
      [county |-> "Suffolk", electric_utility |-> "PSEG",
       gas_utility |-> "KeySpan", zone |-> "4",
       design_temp_f |-> 11, new_construction_share |-> 10],
      [county |-> "Albany", electric_utility |-> "NationalGrid",
       gas_utility |-> "NationalGrid", zone |-> "5",
       design_temp_f |-> 0, new_construction_share |-> 20],
      [county |-> "Erie", electric_utility |-> "NYSEG",
       gas_utility |-> "NFG", zone |-> "5",
       design_temp_f |-> 4, new_construction_share |-> 20],
      [county |-> "Essex", electric_utility |-> "NYSEG",
       zone |-> "6",
       design_temp_f |-> -12, new_construction_share |-> 5],
      [county |-> "Lewis", electric_utility |-> "NationalGrid",
       gas_utility |-> "NFG", zone |-> "6",
       design_temp_f |-> -10, new_construction_share |-> 15]>>

\* load_counties: the file as it is, or, in the configurations that say so,
\* a file that lists no county of zone 6
load_counties(c) ==
    LET P(r) == c.counties = "all" \/ r.zone # "6"
    IN  FilterSeq(counties_yaml, P)

\* utility_rebates.yaml: long format, one record per utility x technology
load_utility_rebates(c) ==
    <<[utility |-> "ConEd", technology |-> "HPWH", amount |-> 1000,
       unit |-> "$/project"],
      [utility |-> "NationalGrid", technology |-> "HPWH", amount |-> 700,
       unit |-> "$/project"],
      [utility |-> "ConEd", technology |-> "GSHP", amount |-> c.coned_gshp_rebate,
       unit |-> "$/project", project_type |-> "new_construction"],
      [utility |-> "ConEd", technology |-> "GSHP", amount |-> 5000,
       unit |-> "$/project", project_type |-> "retrofit"],
      [utility |-> "PSEG", technology |-> "GSHP", amount |-> 2000,
       unit |-> "$/ton", project_type |-> "new_construction", cap |-> 8000],
      [utility |-> "NationalGrid", technology |-> "GSHP", amount |-> 1500,
       unit |-> "$/ton", project_type |-> "new_construction"],
      [utility |-> "NYSEG", technology |-> "ccASHP", amount |-> 500,
       unit |-> "$/project", project_type |-> "new_construction"]>>

\* service_line_costs.yaml; the gas utility KeySpan has no record
load_service_line_costs(c) ==
    <<[gas_utility |-> "NationalGrid", avg_service_line_cost |-> 6000],
      [gas_utility |-> "NFG", avg_service_line_cost |-> 4000]>>

\* heating_survey.yaml: respondent counts per system type and zone
load_heating_survey(c) ==
    <<[system_type |-> "Furnace + Gas",
       zone_4_count |-> 60, zone_5_count |-> 50, zone_6_count |-> 20],
      [system_type |-> "Boiler + Gas",
       zone_4_count |-> 20, zone_5_count |-> 10, zone_6_count |-> 5],
      [system_type |-> "Furnace + Propane or Oil",
       zone_4_count |-> 15, zone_5_count |-> 30, zone_6_count |-> 20],
      [system_type |-> "Boiler + Propane or Oil",
       zone_4_count |-> 5, zone_5_count |-> 10, zone_6_count |-> 5],
      [system_type |-> "Heat Pump",
       zone_4_count |-> 30, zone_5_count |-> 20, zone_6_count |-> 10]>>

\* the configurations of a run: the largest utility GSHP rebate varies, so
\* that the incentives stay below the installed price in one configuration
\* and exceed it in zone 4 in the other
Configs ==
    [gshp_price : {50000}, coned_gshp_rebate : {4000, 32000}, counties : {"all"},
     model_params : {"all"}]

\* the configurations of the runs with malformed county data: the county
\* file as it is, and one without a county of zone 6
ZoneConfigs ==
    [gshp_price : {50000}, coned_gshp_rebate : {4000},
     counties : {"all", "zone_6_none"}, model_params : {"all"}]

\* the configurations of the runs with an incomplete model_params.yaml: the
\* file as it is, and one without propane_tank_cost
ParamConfigs ==
    [gshp_price : {50000}, coned_gshp_rebate : {4000}, counties : {"all"},
     model_params : {"all", "no_propane_tank_cost"}]

-----------------------------------------------------------------------------
(* Helper: apply scenario-level overrides                                  *)

\* apply_one_override with the zone of the key left out of the condition
apply_one_override_any_zone(df, fuel, zone, col_name, value) ==
    IF col_name \notin df.columns THEN df
    ELSE [df EXCEPT !.rows =
            Rows([i \in DOMAIN df.rows |->
                LET r == df.rows[i]
                IN  IF "fuel" \in DOMAIN r /\ r["fuel"] = fuel
                    THEN (col_name :> value) @@ r
                    ELSE r])]

\* apply_one_override with the condition narrowed to the ccASHP row
apply_one_override_ccashp_only(df, fuel, zone, col_name, value) ==
    IF col_name \notin df.columns THEN df
    ELSE [df EXCEPT !.rows =
            Rows([i \in DOMAIN df.rows |->
                LET r == df.rows[i]
                IN  IF "fuel" \in DOMAIN r /\ "zone" \in DOMAIN r
                       /\ r["fuel"] = fuel /\ r["zone"] = zone
                       /\ r["hp_technology"] = "ccASHP"
                    THEN (col_name :> value) @@ r
                    ELSE r])]

\* apply_one_override without the test that the table has the column
apply_one_override_any_column(df, fuel, zone, col_name, value) ==
    [df EXCEPT !.rows =
        Rows([i \in DOMAIN df.rows |->
            LET r == df.rows[i]
            IN  IF "fuel" \in DOMAIN r /\ "zone" \in DOMAIN r
                   /\ r["fuel"] = fuel /\ r["zone"] = zone
                THEN (col_name :> value) @@ r
                ELSE r])]

\* one step of the loops of _apply_overrides: the column col_name of every
\* row whose fuel and zone match becomes value; a column that is not in the
\* table is skipped
apply_one_override(df, fuel, zone, col_name, value) ==
    IF col_name \notin df.columns THEN df
    ELSE [df EXCEPT !.rows =
            Rows([i \in DOMAIN df.rows |->
                LET r == df.rows[i]
                IN  IF "fuel" \in DOMAIN r /\ "zone" \in DOMAIN r
                       /\ r["fuel"] = fuel /\ r["zone"] = zone
                    THEN (col_name :> value) @@ r
                    ELSE r])]

\* the inner loop: for col_name, value in params.items()
RECURSIVE apply_params(_, _, _, _)
apply_params(df, fuel, zone, params) ==
    IF params = <<>> THEN df
    ELSE apply_params(
            apply_one_override(df, fuel, zone, Head(params)[1], Head(params)[2]),
            fuel, zone, Tail(params))

\* the outer loop: for (fuel, zone), params in overrides.items()
RECURSIVE apply_entries(_, _)
apply_entries(df, ov) ==
    IF ov = <<>> THEN df
    ELSE apply_entries(
            apply_params(df, Head(ov).fuel, Head(ov).zone, Head(ov).params),
            Tail(ov))

\* _apply_overrides returning the table as it came
apply_overrides_skipped(df, ov) ==
    df

\* _apply_overrides(df, overrides); None and {} are the empty sequence
apply_overrides(df, ov) ==
    IF ov = <<>> THEN df ELSE apply_entries(df, ov)

-----------------------------------------------------------------------------
(* Weighted-average design temperature per zone                            *)

\* the counties of zone z among recs, in order
CountiesOfZone(recs, z) ==
    LET P(r) == r.zone = z IN FilterSeq(recs, P)

\* the zones that occur in recs (the groups of group_by("zone"))
ZonesOf(recs) ==
    {recs[i].zone : i \in DOMAIN recs}

\* zone_total as the statewide sum of the shares
ZoneTotal_statewide(recs, z) ==
    SumSeq([i \in DOMAIN recs |-> recs[i].new_construction_share])

\* zone_total = new_construction_share.sum().over("zone")
ZoneTotal(recs, z) ==
    LET cs == CountiesOfZone(recs, z)
    IN  SumSeq([i \in DOMAIN cs |-> cs[i].new_construction_share])

\* zone_weight = new_construction_share / zone_total, in hundredths
ZoneWeight(recs, r) ==
    DivPct(r.new_construction_share, ZoneTotal(recs, r.zone))

\* group_by("zone").agg((value * zone_weight).sum()): null values are
\* skipped by sum()
ZoneBlend(recs, z, field) ==
    LET cs == CountiesOfZone(recs, z)
    IN  SumSeq([i \in DOMAIN cs |->
                  IF field \in DOMAIN cs[i]
                  THEN cs[i][field] * ZoneWeight(recs, cs[i])
                  ELSE 0]) \div 100

compute_zone_design_temps(c) ==
    LET counties == load_counties(c)
    IN  [z \in ZonesOf(counties) |->
            [coldest_day_temp_f |-> ZoneBlend(counties, z, "design_temp_f")]]

-----------------------------------------------------------------------------
(* Stage 1: build_scenario_table                                           *)

\* fuels.join(zones, how="cross") with the technologies joined on the row
\* number instead of crosswise: one row per (fuel, zone)
CrossJoin_by_row ==
    Rows([i \in 1..(Len(FUELS) * Len(ZONES)) |->
        [fuel |-> FUELS[((i - 1) \div Len(ZONES)) + 1],
         zone |-> ZONES[((i - 1) % Len(ZONES)) + 1],
         hp_technology |-> TECHS[((i - 1) % Len(TECHS)) + 1]]])

\* the cross join with the technologies in the reverse order: the GSHP row
\* of each (fuel, zone) first
CrossJoin_gshp_first ==
    Rows([i \in 1..(Len(FUELS) * Len(ZONES) * Len(TECHS)) |->
        [fuel |-> FUELS[((i - 1) \div (Len(ZONES) * Len(TECHS))) + 1],
         zone |-> ZONES[(((i - 1) \div Len(TECHS)) % Len(ZONES)) + 1],
         hp_technology |-> TECHS[Len(TECHS) - ((i - 1) % Len(TECHS))]]])

\* fuels.join(zones, how="cross").join(techs, how="cross")
CrossJoin ==
    Rows([i \in 1..(Len(FUELS) * Len(ZONES) * Len(TECHS)) |->
        [fuel |-> FUELS[((i - 1) \div (Len(ZONES) * Len(TECHS))) + 1],
         zone |-> ZONES[(((i - 1) \div Len(TECHS)) % Len(ZONES)) + 1],
         hp_technology |-> TECHS[((i - 1) % Len(TECHS)) + 1]]])

build_scenario_table(c, ov) ==
    LET scenarios == [columns |-> {"fuel", "zone", "hp_technology"},
                      rows |-> CrossJoin]
        building == load_building_params(c)
        s1 == JoinOnZone(scenarios, building,
                         DOMAIN building[CHOOSE z \in DOMAIN building : TRUE],
                         "inner")
        model_params == load_model_params(c)
        F2(r) == model_params
        s2 == WithColumns(s1, DOMAIN model_params, F2)
        op == load_operating_params(c)
        F3(r) ==
            [furnace_afue |-> op.efficiency.furnace_afue,
             ccashp_hspf2 |-> op.efficiency.ccashp_hspf2,
             gshp_cop |-> op.efficiency.gshp_cop,
             furnace_maintenance_cost |-> op.maintenance.furnace,
             ac_maintenance_cost |-> op.maintenance.ac,
             gwh_maintenance_cost |-> op.maintenance.gas_water_heater,
             ccashp_maintenance_cost |-> op.maintenance.ccashp,
             gshp_maintenance_cost |-> op.maintenance.gshp,
             hpwh_maintenance_cost |-> op.maintenance.hpwh,
             natural_gas_btu_per_mcf |-> op.fuel_content.natural_gas_btu_per_mcf,
             propane_btu_per_gallon |-> op.fuel_content.propane_btu_per_gallon,
             hpwh_daily_kwh |-> op.hpwh.daily_kwh]
        s3 == WithColumns(s2, DOMAIN F3(<<>>), F3)
        F4(r) ==
            [gwh_fuel_usage_rate |->
                IF r["fuel"] = "natural_gas"
                THEN op.gas_water_heater.fuel_usage_rate_nat_gas
                ELSE op.gas_water_heater.fuel_usage_rate_propane,
             gwh_daily_operating_hours |-> op.gas_water_heater.daily_operating_hours]
        s4 == WithColumns(s3, {"gwh_fuel_usage_rate", "gwh_daily_operating_hours"}, F4)
        fuel_prices == load_fuel_prices(c, FUEL_PRICE_START_YEAR)
        \* cents/kWh to $/kWh
        elec_price == Pct(fuel_prices["electricity"].avg_price, 1)
        F5(r) == [electricity_price |-> elec_price]
        s5 == WithColumns(s4, {"electricity_price"}, F5)
        natgas_price == fuel_prices["natural_gas"].avg_price
        \* cents/gallon to $/gallon
        propane_price == Pct(fuel_prices["propane"].avg_price, 1)
        F6(r) == [fuel_price |-> IF r["fuel"] = "natural_gas"
                                 THEN natgas_price ELSE propane_price]
        s6 == WithColumns(s5, {"fuel_price"}, F6)
    IN  apply_overrides(s6, ov)

-----------------------------------------------------------------------------
(* Stage 2: building geometry (Model rows 12-24)                           *)

\* scenarios is the table its first line gets from build_scenario_table
compute_building_geometry(scenarios) ==
    LET F1(r) ==
            [wall_length_ft |-> Sqrt(r["floor_area_sf"] \div r["stories"])]
        s1 == WithColumns(scenarios, {"wall_length_ft"}, F1)
        F2(r) ==
            [wall_surface_area_sf |->
                r["wall_length_ft"] * 4 * r["stories"] * r["wall_height_ft"],
             attic_floor_area_sf |-> r["floor_area_sf"] \div r["stories"]]
        s2 == WithColumns(s1, {"wall_surface_area_sf", "attic_floor_area_sf"}, F2)
        F3(r) ==
            [wall_area_excl_windows_sf |->
                Pct(r["wall_surface_area_sf"], 100 - r["window_door_pct"]),
             window_door_area_sf |->
                Pct(r["wall_surface_area_sf"], r["window_door_pct"]),
             above_grade_basement_wall_area_sf |->
                4 * r["above_grade_basement_wall_height_ft"] * r["wall_length_ft"],
             below_grade_basement_wall_area_sf |->
                4 * r["below_grade_basement_wall_height_ft"] * r["wall_length_ft"],
             basement_floor_perimeter_ft |-> r["wall_length_ft"] * 4,
             volume_cf |->
                r["floor_area_sf"] * r["wall_height_ft"]
                + ((r["above_grade_basement_wall_height_ft"]
                    + r["below_grade_basement_wall_height_ft"])
                   * r["floor_area_sf"]) \div r["stories"]]
    IN  WithColumns(s2, {"wall_area_excl_windows_sf", "window_door_area_sf",
                         "above_grade_basement_wall_area_sf",
                         "below_grade_basement_wall_area_sf",
                         "basement_floor_perimeter_ft", "volume_cf"}, F3)

-----------------------------------------------------------------------------
(* Stage 3: heat loss rates (Model rows 33-40)                             *)

compute_heat_loss_rates(scenarios) ==
    LET F1(r) ==
            [heat_loss_attic |-> r["attic_floor_area_sf"] \div r["r_attic"],
             heat_loss_walls |-> r["wall_area_excl_windows_sf"] \div r["r_walls"],
             heat_loss_windows_doors |->
                r["window_door_area_sf"] \div r["r_windows_doors"],
             heat_loss_above_grade_basement |->
                r["above_grade_basement_wall_area_sf"] \div r["r_basement_wall"],
             \* 0.018 * (ACH50 / 20) * volume
             heat_loss_air_changes |->
                (18 * r["ach50"] * r["volume_cf"]) \div (20 * 1000),
             heat_loss_below_grade_basement |->
                r["below_grade_basement_wall_area_sf"] \div r["r_basement_wall"],
             heat_loss_slab |->
                Pct(r["basement_floor_perimeter_ft"], r["slab_f_factor"])]
        s1 == WithColumns(scenarios,
                {"heat_loss_attic", "heat_loss_walls", "heat_loss_windows_doors",
                 "heat_loss_above_grade_basement", "heat_loss_air_changes",
                 "heat_loss_below_grade_basement", "heat_loss_slab"}, F1)
        F2(r) ==
            [total_heat_loss_rate |->
                r["heat_loss_attic"] + r["heat_loss_walls"]
                + r["heat_loss_windows_doors"]
                + r["heat_loss_above_grade_basement"]
                + r["heat_loss_air_changes"]
                + r["heat_loss_below_grade_basement"]
                + r["heat_loss_slab"]]
    IN  WithColumns(s1, {"total_heat_loss_rate"}, F2)

-----------------------------------------------------------------------------
(* Stage 4: yearly BTU (Model rows 43-46)                                  *)

compute_yearly_btu(scenarios) ==
    LET F1(r) == [adjusted_hdd |-> r["hdd"] - r["epa_hdd_adjustment"]]
        s1 == WithColumns(scenarios, {"adjusted_hdd"}, F1)
        F2(r) ==
            [yearly_btu |-> r["total_heat_loss_rate"] * r["adjusted_hdd"] * 24]
    IN  WithColumns(s1, {"yearly_btu"}, F2)

-----------------------------------------------------------------------------
(* Stage 5: system sizing (Model rows 49-55)                               *)

compute_system_sizing(scenarios, c) ==
    LET zone_temps == compute_zone_design_temps(c)
        s0 == JoinOnZone(scenarios, zone_temps, {"coldest_day_temp_f"}, "inner")
        F1(r) ==
            [degree_diff_coldest_day |->
                r["indoor_design_temp_f"] - r["coldest_day_temp_f"]]
        s1 == WithColumns(s0, {"degree_diff_coldest_day"}, F1)
        F2(r) ==
            [btu_hr_coldest_day |->
                r["total_heat_loss_rate"] * r["degree_diff_coldest_day"]
                + r["internal_heat_gains_btu"]]
        s2 == WithColumns(s1, {"btu_hr_coldest_day"}, F2)
        F3(r) ==
            [system_capacity_btu_hr |->
                Pct(r["btu_hr_coldest_day"], r["sizing_scale_up_factor"])]
    IN  WithColumns(s2, {"system_capacity_btu_hr"}, F3)

-----------------------------------------------------------------------------
(* Helpers: blended averages by zone (service line costs, rebates)         *)

\* left.join(right, on=key, how="left") of county records with lookup
\* records: the first record of right with the same key gives field as
\* name; no match leaves name null
\* the join as an inner join: a record without a match is dropped
LeftJoinField_inner(recs, right, key, rkey, field, name) ==
    LET Hit(r) == \E k \in DOMAIN right : right[k][rkey] = r[key]
        kept == FilterSeq(recs, Hit)
    IN  Rows([i \in DOMAIN kept |->
            LET P(x) == x[rkey] = kept[i][key]
                hits == FilterSeq(right, P)
            IN  (name :> hits[1][field]) @@ kept[i]])

LeftJoinField(recs, right, key, rkey, field, name) ==
    Rows([i \in DOMAIN recs |->
        LET P(x) == key \in DOMAIN recs[i] /\ x[rkey] = recs[i][key]
            hits == FilterSeq(right, P)
        IN  IF hits = <<>> \/ field \notin DOMAIN hits[1]
            THEN recs[i]
            ELSE (name :> hits[1][field]) @@ recs[i]])

\* Expr.fill_null(0)
FillNull0(recs, field) ==
    Rows([i \in DOMAIN recs |->
        IF field \in DOMAIN recs[i] THEN recs[i] ELSE (field :> 0) @@ recs[i]])

compute_zone_service_line_costs(c) ==
    LET counties == load_counties(c)
        service_lines == load_service_line_costs(c)
        HasGas(r) == "gas_utility" \in DOMAIN r
        joined == LeftJoinField(FilterSeq(counties, HasGas), service_lines,
                                "gas_utility", "gas_utility",
                                "avg_service_line_cost", "avg_service_line_cost")
    IN  [z \in ZonesOf(joined) |->
            [service_line_cost |-> ZoneBlend(joined, z, "avg_service_line_cost")]]

compute_zone_hpwh_rebates(c) ==
    LET counties == load_counties(c)
        rebates == load_utility_rebates(c)
        IsHpwh(r) == r.technology = "HPWH"
        hpwh_rebates == FilterSeq(rebates, IsHpwh)
        joined == FillNull0(
                    LeftJoinField(counties, hpwh_rebates, "electric_utility",
                                  "utility", "amount", "hpwh_rebate_amount"),
                    "hpwh_rebate_amount")
    IN  [z \in ZonesOf(joined) |->
            [hpwh_rebate |-> ZoneBlend(joined, z, "hpwh_rebate_amount")]]

\* float(size.split()[0])
ParseTons(size) ==
    CASE size[1] = "3" -> 3
      [] size[1] = "4" -> 4
      [] size[1] = "5" -> 5
      [] size[1] = "6" -> 6

\* the conversion without the cap
rebate_per_project_uncapped(r, gshp_tons) ==
    IF r.unit = "$/ton" THEN r.amount * gshp_tons ELSE r.amount

\* $/ton amounts times the system tonnage, capped where a cap is present;
\* other amounts unchanged
rebate_per_project(r, gshp_tons) ==
    IF r.unit = "$/ton"
    THEN IF "cap" \in DOMAIN r
         THEN Min2(r.amount * gshp_tons, r.cap)
         ELSE r.amount * gshp_tons
    ELSE r.amount

compute_zone_gshp_rebates(c) ==
    LET counties == load_counties(c)
        rebates == load_utility_rebates(c)
        equipment == load_equipment(c)
        IsGshpDevice(e) == e.device = "GSHP"
        gshp_row == FilterSeq(equipment, IsGshpDevice)
        gshp_tons == ParseTons(gshp_row[1].size)
        IsGshpNew(r) == /\ r.technology = "GSHP"
                        /\ "project_type" \in DOMAIN r
                        /\ r.project_type = "new_construction"
        filtered == FilterSeq(rebates, IsGshpNew)
        gshp_rebates == [i \in DOMAIN filtered |->
                            [utility |-> filtered[i].utility,
                             gshp_rebate_amount |->
                                rebate_per_project(filtered[i], gshp_tons)]]
        joined == FillNull0(
                    LeftJoinField(counties, gshp_rebates, "electric_utility",
                                  "utility", "gshp_rebate_amount",
                                  "gshp_rebate_amount"),
                    "gshp_rebate_amount")
    IN  [z \in ZonesOf(joined) |->
            [gshp_rebate |-> ZoneBlend(joined, z, "gshp_rebate_amount")]]

\* equipment.filter(device == d)["avg_price"][0]
AvgPrice(equipment, d) ==
    LET P(e) == e.device = d IN FilterSeq(equipment, P)[1].avg_price

\* equipment.filter(device == d & zones.list.contains(z))["avg_price"][0]
AvgPriceForZone(equipment, d, z) ==
    LET P(e) == e.device = d /\ "zones" \in DOMAIN e /\ z \in e.zones
    IN  FilterSeq(equipment, P)[1].avg_price

-----------------------------------------------------------------------------
(* Stage 6: baseline costs (Model rows 59-96)                              *)

\* the joined service line cost kept on the rows of both fuels
service_line_cost_both_fuels(r) ==
    <<>>

\* when(fuel == "propane").then(0.0).otherwise(service_line_cost): the
\* columns the expression changes; a null service_line_cost stays null on
\* natural gas rows
service_line_cost_by_fuel(r) ==
    IF r["fuel"] = "propane" THEN [service_line_cost |-> 0]
    ELSE <<>>

compute_baseline_costs(scenarios, c) ==
    LET equipment == load_equipment(c)
        furnace_cost == AvgPrice(equipment, "furnace")
        ac_cost == AvgPrice(equipment, "ac")
        gwh_cost == AvgPrice(equipment, "gas_water_heater")
        model_params == load_model_params(c)
        propane_tank_cost == model_params.propane_tank_cost
        F1(r) ==
            [furnace_equipment_cost |-> furnace_cost,
             gas_tank_cost |->
                IF r["fuel"] = "propane" THEN propane_tank_cost ELSE 0]
        s1 == WithColumns(scenarios, {"furnace_equipment_cost", "gas_tank_cost"}, F1)
        F2(r) ==
            [furnace_installed_cost |->
                r["furnace_equipment_cost"] + r["gas_tank_cost"]]
        s2 == WithColumns(s1, {"furnace_installed_cost"}, F2)
        F3(r) ==
            [furnace_yearly_fuel_usage |->
                IF r["fuel"] = "natural_gas"
                THEN r["yearly_btu"]
                        \div Pct(r["natural_gas_btu_per_mcf"], r["furnace_afue"])
                ELSE r["yearly_btu"]
                        \div Pct(r["propane_btu_per_gallon"], r["furnace_afue"])]
        s3 == WithColumns(s2, {"furnace_yearly_fuel_usage"}, F3)
        F4(r) ==
            [furnace_yearly_fuel_cost |->
                Pct(r["furnace_yearly_fuel_usage"], r["fuel_price"]),
             furnace_yearly_electrical_kwh |->
                (r["yearly_btu"] \div 1000000)
                    * r["furnace_electrical_usage_kwh_per_mmbtu"]]
        s4 == WithColumns(s3, {"furnace_yearly_fuel_cost",
                               "furnace_yearly_electrical_kwh"}, F4)
        F5(r) ==
            [furnace_yearly_electrical_cost |->
                Pct(r["furnace_yearly_electrical_kwh"], r["electricity_price"])]
        s5 == WithColumns(s4, {"furnace_yearly_electrical_cost"}, F5)
        F6(r) ==
            [furnace_yearly_operating_cost |->
                r["furnace_yearly_fuel_cost"]
                + r["furnace_yearly_electrical_cost"]
                + r["furnace_maintenance_cost"]]
        s6 == WithColumns(s5, {"furnace_yearly_operating_cost"}, F6)
        F7(r) ==
            [ac_equipment_cost |-> ac_cost,
             ac_yearly_operating_cost |-> r["ac_maintenance_cost"]]
        s7 == WithColumns(s6, {"ac_equipment_cost", "ac_yearly_operating_cost"}, F7)
        F8(r) ==
            [gwh_equipment_cost |-> gwh_cost,
             gwh_yearly_fuel_usage |->
                Pct(r["gwh_daily_operating_hours"] * 365, r["gwh_fuel_usage_rate"])]
        s8 == WithColumns(s7, {"gwh_equipment_cost", "gwh_yearly_fuel_usage"}, F8)
        F9(r) ==
            [gwh_yearly_fuel_cost |->
                Pct(r["gwh_yearly_fuel_usage"], r["fuel_price"])]
        s9 == WithColumns(s8, {"gwh_yearly_fuel_cost"}, F9)
        F10(r) ==
            [gwh_yearly_operating_cost |->
                r["gwh_yearly_fuel_cost"] + r["gwh_maintenance_cost"]]
        s10 == WithColumns(s9, {"gwh_yearly_operating_cost"}, F10)
        zone_service_line == compute_zone_service_line_costs(c)
        s11 == JoinOnZone(s10, zone_service_line, {"service_line_cost"}, "left")
        F12(r) == service_line_cost_by_fuel(r)
        s12 == WithColumns(s11, {"service_line_cost"}, F12)
        F13(r) ==
            [baseline_equipment_total |->
                r["furnace_installed_cost"] + r["ac_equipment_cost"]
                + r["gwh_equipment_cost"]]
        s13 == WithColumns(s12, {"baseline_equipment_total"}, F13)
        F14(r) ==
            [baseline_equipment_with_service_line |->
                r["baseline_equipment_total"] + r["service_line_cost"],
             baseline_yearly_operating |->
                r["furnace_yearly_operating_cost"]
                + r["ac_yearly_operating_cost"]
                + r["gwh_yearly_operating_cost"]]
    IN  WithColumns(s13, {"baseline_equipment_with_service_line",
                          "baseline_yearly_operating"}, F14)

-----------------------------------------------------------------------------
(* Stage 7: heat pump costs (Model rows 100-123)                           *)

is_ccashp(r) ==
    r["hp_technology"] = "ccASHP"

\* the GSHP predicate true of every row
is_gshp_every_row(r) ==
    r["hp_technology"] \in {"GSHP", "ccASHP"}

is_gshp(r) ==
    r["hp_technology"] = "GSHP"

\* the expression without its clip
ClipLower0_unclipped(x) ==
    x

\* Expr.clip(lower_bound=0)
ClipLower0(x) ==
    Max2(x, 0)

\* equipment - rebate - ny_tax_credit - federal_tax_credit, floored at zero
gshp_net_cost(r) ==
    ClipLower0(r["gshp_equipment_cost"] - r["gshp_rebate"]
               - r["gshp_ny_tax_credit"] - r["gshp_federal_tax_credit"])

\* the totals with the ccASHP columns on every row
hp_totals_ccashp(r) ==
    [hp_equipment_total |-> r["ccashp_net_cost"] + r["hpwh_net_cost"],
     hp_yearly_operating_total |->
        r["ccashp_yearly_operating_cost"] + r["hpwh_yearly_operating_cost"]]

\* HP totals: the space heating columns of the row's technology plus the
\* water heater columns
hp_totals(r) ==
    [hp_equipment_total |->
        (IF is_ccashp(r) THEN r["ccashp_net_cost"] ELSE r["gshp_net_cost"])
        + r["hpwh_net_cost"],
     hp_yearly_operating_total |->
        (IF is_ccashp(r) THEN r["ccashp_yearly_operating_cost"]
         ELSE r["gshp_yearly_operating_cost"])
        + r["hpwh_yearly_operating_cost"]]

compute_heat_pump_costs(scenarios, c) ==
    LET equipment == load_equipment(c)
        ccashp_zone4 == AvgPriceForZone(equipment, "ccASHP", "4")
        ccashp_zone56 == AvgPriceForZone(equipment, "ccASHP", "5")
        hpwh_cost == AvgPrice(equipment, "hpwh")
        gshp_cost == AvgPrice(equipment, "GSHP")
        model_params == load_model_params(c)
        ny_geo_rate == model_params.ny_geo_tax_credit_rate
        ny_geo_cap == model_params.ny_geo_tax_credit_cap
        federal_25d_rate == model_params.federal_25d_rate
        \* --- ccASHP costs (only for ccASHP rows; 0 for GSHP rows) ---
        F1(r) ==
            [ccashp_equipment_cost |->
                IF is_ccashp(r) /\ r["zone"] = "4" THEN ccashp_zone4
                ELSE IF is_ccashp(r) THEN ccashp_zone56
                ELSE 0,
             ccashp_rebate |-> 0,
             ccashp_federal_tax_credit |-> 0]
        s1 == WithColumns(scenarios, {"ccashp_equipment_cost", "ccashp_rebate",
                                      "ccashp_federal_tax_credit"}, F1)
        F2(r) ==
            [ccashp_net_cost |->
                r["ccashp_equipment_cost"] - r["ccashp_rebate"]
                - r["ccashp_federal_tax_credit"]]
        s2 == WithColumns(s1, {"ccashp_net_cost"}, F2)
        F3(r) ==
            [ccashp_yearly_kwh |->
                IF is_ccashp(r)
                THEN r["yearly_btu"] \div (r["ccashp_hspf2"] * 1000)
                ELSE 0]
        s3 == WithColumns(s2, {"ccashp_yearly_kwh"}, F3)
        F4(r) ==
            [ccashp_yearly_electrical_cost |->
                Pct(r["ccashp_yearly_kwh"], r["electricity_price"])]
        s4 == WithColumns(s3, {"ccashp_yearly_electrical_cost"}, F4)
        F5(r) ==
            [ccashp_yearly_operating_cost |->
                IF is_ccashp(r)
                THEN r["ccashp_yearly_electrical_cost"] + r["ccashp_maintenance_cost"]
                ELSE 0]
        s5 == WithColumns(s4, {"ccashp_yearly_operating_cost"}, F5)
        \* --- GSHP costs (only for GSHP rows; 0 for ccASHP rows) ---
        zone_gshp_rebates == compute_zone_gshp_rebates(c)
        s6 == JoinOnZone(s5, zone_gshp_rebates, {"gshp_rebate"}, "left")
        F7(r) ==
            [gshp_equipment_cost |-> IF is_gshp(r) THEN gshp_cost ELSE 0]
        s7 == WithColumns(s6, {"gshp_equipment_cost"}, F7)
        \* a null gshp_rebate stays null on GSHP rows
        F8(r) ==
            IF is_gshp(r) THEN <<>> ELSE [gshp_rebate |-> 0]
        s8 == WithColumns(s7, {"gshp_rebate"}, F8)
        F9(r) ==
            [gshp_ny_tax_credit |->
                IF is_gshp(r)
                THEN Min2(Pct(r["gshp_equipment_cost"], ny_geo_rate), ny_geo_cap)
                ELSE 0,
             gshp_federal_tax_credit |->
                IF is_gshp(r)
                THEN Pct(r["gshp_equipment_cost"], federal_25d_rate)
                ELSE 0]
        s9 == WithColumns(s8, {"gshp_ny_tax_credit", "gshp_federal_tax_credit"}, F9)
        F10(r) == [gshp_net_cost |-> gshp_net_cost(r)]
        s10 == WithColumns(s9, {"gshp_net_cost"}, F10)
        F11(r) ==
            [gshp_yearly_kwh |->
                IF is_gshp(r)
                THEN r["yearly_btu"] \div Pct(3412, r["gshp_cop"])
                ELSE 0]
        s11 == WithColumns(s10, {"gshp_yearly_kwh"}, F11)
        F12(r) ==
            [gshp_yearly_electrical_cost |->
                Pct(r["gshp_yearly_kwh"], r["electricity_price"])]
        s12 == WithColumns(s11, {"gshp_yearly_electrical_cost"}, F12)
        F13(r) ==
            [gshp_yearly_operating_cost |->
                IF is_gshp(r)
                THEN r["gshp_yearly_electrical_cost"] + r["gshp_maintenance_cost"]
                ELSE 0]
        s13 == WithColumns(s12, {"gshp_yearly_operating_cost"}, F13)
        \* --- HPWH costs (same for both technologies) ---
        zone_hpwh_rebates == compute_zone_hpwh_rebates(c)
        s14 == JoinOnZone(s13, zone_hpwh_rebates, {"hpwh_rebate"}, "left")
        F15(r) == [hpwh_device_cost |-> hpwh_cost]
        s15 == WithColumns(s14, {"hpwh_device_cost"}, F15)
        F16(r) ==
            [hpwh_net_cost |-> r["hpwh_device_cost"] - r["hpwh_rebate"],
             hpwh_yearly_kwh |-> r["hpwh_daily_kwh"] * 365]
        s16 == WithColumns(s15, {"hpwh_net_cost", "hpwh_yearly_kwh"}, F16)
        F17(r) ==
            [hpwh_yearly_electrical_cost |->
                Pct(r["hpwh_yearly_kwh"], r["electricity_price"])]
        s17 == WithColumns(s16, {"hpwh_yearly_electrical_cost"}, F17)
        F18(r) ==
            [hpwh_yearly_operating_cost |->
                r["hpwh_yearly_electrical_cost"] + r["hpwh_maintenance_cost"]]
        s18 == WithColumns(s17, {"hpwh_yearly_operating_cost"}, F18)
        \* --- HP totals (picks from the row's technology) ---
        F19(r) == hp_totals(r)
    IN  WithColumns(s18, {"hp_equipment_total", "hp_yearly_operating_total"}, F19)

-----------------------------------------------------------------------------
(* Savings (Model rows 126-134)                                            *)

\* 1 - (1 + rate)^(-n), in hundredths
AnnuityDenominator(rate, n) ==
    100 - DivPct(100, PowPct(100 + rate, n))

\* the payment of an interest-only loan: the annuity denominator left out
pmt_interest_only(principal, annual_rate, n_years) ==
    Pct(principal, annual_rate)

\* annual payment: (rate * principal) / (1 - (1 + rate)^(-n))
pmt(principal, annual_rate, n_years) ==
    DivPct(Pct(principal, annual_rate), AnnuityDenominator(annual_rate, n_years))

\* (1 - (1 + r)^(-n)) / r, in hundredths
pv_annuity_factor(discount_rate, analysis_years) ==
    DivPct(AnnuityDenominator(discount_rate, analysis_years), discount_rate)

\* rows 127-128 with the second total written over the baseline total
construction_savings_columns_in_place(r) ==
    [construction_savings |->
        r["baseline_equipment_total"] - r["hp_equipment_total"],
     baseline_equipment_total |->
        r["baseline_equipment_with_service_line"] - r["hp_equipment_total"]]

\* rows 127-128 with the two baseline totals exchanged
construction_savings_columns_exchanged(r) ==
    [construction_savings |->
        r["baseline_equipment_with_service_line"] - r["hp_equipment_total"],
     construction_savings_with_service_line |->
        r["baseline_equipment_total"] - r["hp_equipment_total"]]

\* rows 127-128
construction_savings_columns(r) ==
    [construction_savings |->
        r["baseline_equipment_total"] - r["hp_equipment_total"],
     construction_savings_with_service_line |->
        r["baseline_equipment_with_service_line"] - r["hp_equipment_total"]]

\* the columns compute_savings adds; scenarios is the table its second line
\* gets from _apply_overrides
compute_savings(scenarios) ==
    LET s1 == WithColumns(scenarios, {"construction_savings",
                                      "construction_savings_with_service_line"},
                          construction_savings_columns)
        F2(r) ==
            [mortgage_savings |->
                pmt(r["baseline_equipment_total"], r["mortgage_rate"],
                    r["mortgage_term_years"])
                - pmt(r["hp_equipment_total"], r["mortgage_rate"],
                      r["mortgage_term_years"]),
             mortgage_savings_with_service_line |->
                pmt(r["baseline_equipment_with_service_line"], r["mortgage_rate"],
                    r["mortgage_term_years"])
                - pmt(r["hp_equipment_total"], r["mortgage_rate"],
                      r["mortgage_term_years"])]
        s2 == WithColumns(s1, {"mortgage_savings",
                               "mortgage_savings_with_service_line"}, F2)
        F3(r) ==
            [operating_savings |->
                r["baseline_yearly_operating"] - r["hp_yearly_operating_total"]]
        s3 == WithColumns(s2, {"operating_savings"}, F3)
        F4(r) ==
            [total_yearly_savings |->
                r["mortgage_savings"] + r["operating_savings"],
             total_yearly_savings_with_service_line |->
                r["mortgage_savings_with_service_line"] + r["operating_savings"]]
        s4 == WithColumns(s3, {"total_yearly_savings",
                               "total_yearly_savings_with_service_line"}, F4)
        F5(r) ==
            [present_value_15yr |->
                Pct(r["total_yearly_savings_with_service_line"],
                    pv_annuity_factor(r["discount_rate"],
                                      r["analysis_period_years"]))]
    IN  WithColumns(s4, {"present_value_15yr"}, F5)


-----------------------------------------------------------------------------
(* Weighted averages (Model rows 137-149)                                  *)

\* survey[count_col] summed over the rows whose system_type is in types
SurveyCount(survey, types, count_col) ==
    LET P(r) == r.system_type \in types
        rs == FilterSeq(survey, P)
    IN  SumSeq([i \in DOMAIN rs |-> rs[i][count_col]])

\* one record per (fuel, zone), keyed <<fuel, zone>>
compute_survey_weights(c) ==
    LET survey == load_heating_survey(c)
        gas_types == {"Furnace + Gas", "Boiler + Gas"}
        propane_types == {"Furnace + Propane or Oil", "Boiler + Propane or Oil"}
        count_col(z) == CASE z = "4" -> "zone_4_count"
                          [] z = "5" -> "zone_5_count"
                          [] z = "6" -> "zone_6_count"
        gas_count(z) == SurveyCount(survey, gas_types, count_col(z))
        propane_count(z) == SurveyCount(survey, propane_types, count_col(z))
        total_ff(z) == gas_count(z) + propane_count(z)
        row(f, z) ==
            LET n == IF f = "natural_gas" THEN gas_count(z) ELSE propane_count(z)
            IN  [survey_count |-> n,
                 total_ff_survey_responses |-> total_ff(z),
                 pct_ff_using_fuel |-> DivPct(n, total_ff(z))]
    IN  [k \in {"natural_gas", "propane"} \X {"4", "5", "6"} |-> row(k[1], k[2])]

\* counties.group_by("zone").agg(new_construction_share.sum())
compute_zone_new_construction_shares(c) ==
    LET counties == load_counties(c)
    IN  [z \in ZonesOf(counties) |->
            [pct_new_construction_in_zone |-> ZoneTotal(counties, z)]]

\* savings.join(survey_weights, on=["fuel", "zone"]).join(zone_shares, on="zone")
JoinWeights(df, survey_weights, zone_shares) ==
    LET P(r) == <<r["fuel"], r["zone"]>> \in DOMAIN survey_weights
        kept == FilterSeq(df.rows, P)
        s1 == [columns |-> df.columns \cup {"survey_count",
                                "total_ff_survey_responses", "pct_ff_using_fuel"},
               rows |-> Rows([i \in DOMAIN kept |->
                          kept[i] @@ survey_weights[<<kept[i]["fuel"],
                                                      kept[i]["zone"]>>]])]
    IN  JoinOnZone(s1, zone_shares, {"pct_new_construction_in_zone"}, "inner")

\* (value * weight).sum() and weight.sum() over rows
WeightedSum(rows, value_col, weight_col) ==
    SumSeq([i \in DOMAIN rows |-> rows[i][value_col] * rows[i][weight_col]])

WeightTotal(rows, weight_col) ==
    SumSeq([i \in DOMAIN rows |-> rows[i][weight_col]])

\* the values of column by in rows, each once, in the order of their first
\* rows, from row i on
RECURSIVE FirstSeen(_, _, _)
FirstSeen(rows, by, i) ==
    IF i > Len(rows) THEN <<>>
    ELSE (IF \E j \in 1..(i - 1) : rows[j][by] = rows[i][by]
          THEN <<>>
          ELSE <<rows[i][by]>>) \o FirstSeen(rows, by, i + 1)

\* the groups of group_by(by)
GroupKeys(rows, by) ==
    FirstSeen(rows, by, 1)

\* the orders in which group_by may return n groups: the group order is
\* unspecified without maintain_order
GroupOrders(n) ==
    {o \in [1..n -> 1..n] : \A i, j \in 1..n : o[i] = o[j] => i = j}

\* the groups in the order order
InOrder(groups, order) ==
    Rows([i \in DOMAIN order |-> groups[order[i]]])

\* the aggregation with the plain mean of the group in place of the
\* weighted one
GroupAgg_unweighted(tech_rows, by, weight_col, out_col, tech) ==
    LET keys == GroupKeys(tech_rows, by)
    IN  Rows([i \in DOMAIN keys |->
            LET P(r) == r[by] = keys[i]
                g == FilterSeq(tech_rows, P)
            IN  ("key" :> keys[i])
                @@ (out_col :>
                      SumSeq([j \in DOMAIN g |->
                                g[j]["total_yearly_savings_with_service_line"]])
                      \div Len(g))
                @@ ("hp_technology" :> tech)])

\* tech_df.group_by(by).agg((x * w).sum() / w.sum()).rename(...)
\*        .with_columns(lit(tech).alias("hp_technology")),
\* the groups in the order of their first rows
GroupAgg(tech_rows, by, weight_col, out_col, tech) ==
    LET keys == GroupKeys(tech_rows, by)
    IN  Rows([i \in DOMAIN keys |->
            LET P(r) == r[by] = keys[i]
                g == FilterSeq(tech_rows, P)
            IN  ("key" :> keys[i])
                @@ (out_col :>
                      WeightedSum(g, "total_yearly_savings_with_service_line",
                                  weight_col)
                      \div WeightTotal(g, weight_col))
                @@ ("hp_technology" :> tech)])

\* the rows of every technology
TechRows_unfiltered(df, tech) ==
    df.rows

\* the rows of one technology
TechRows(df, tech) ==
    LET P(r) == r["hp_technology"] = tech IN FilterSeq(df.rows, P)

\* rows 148-149: the overall statewide row of one technology
overall_agg(tech_df, tech) ==
    LET overall_savings ==
            WeightedSum(tech_df, "total_yearly_savings_with_service_line",
                        "pct_new_construction_fuel_zone")
            \div WeightTotal(tech_df, "pct_new_construction_fuel_zone")
        discount_rate == tech_df[1]["discount_rate"]
        analysis_years == tech_df[1]["analysis_period_years"]
        pv_factor == pv_annuity_factor(discount_rate, analysis_years)
        overall_pv == Pct(overall_savings, pv_factor)
    IN  <<[key |-> "overall",
           weighted_statewide_savings |-> overall_savings,
           weighted_statewide_pv |-> overall_pv,
           hp_technology |-> tech]>>

\* the aggregate frames of one technology without the overall one
tech_aggregates_without_overall(scenarios, tech) ==
    LET tech_df == TechRows(scenarios, tech)
    IN  [fuel_agg |-> GroupAgg(tech_df, "fuel", "pct_new_construction_in_zone",
                               "weighted_statewide_savings_by_fuel", tech),
         zone_agg |-> GroupAgg(tech_df, "zone", "pct_ff_using_fuel",
                               "weighted_zonewide_savings", tech),
         overall_agg |-> <<>>]

\* one pass of the loop over the technologies: the three aggregate frames of
\* tech, the groups in the order of their first rows
tech_aggregates(scenarios, tech) ==
    LET tech_df == TechRows(scenarios, tech)
    IN  [fuel_agg |-> GroupAgg(tech_df, "fuel", "pct_new_construction_in_zone",
                               "weighted_statewide_savings_by_fuel", tech),
         zone_agg |-> GroupAgg(tech_df, "zone", "pct_ff_using_fuel",
                               "weighted_zonewide_savings", tech),
         overall_agg |-> overall_agg(tech_df, tech)]

AggregateColumns ==
    {"key", "hp_technology", "weighted_statewide_savings_by_fuel",
     "weighted_zonewide_savings", "weighted_statewide_savings",
     "weighted_statewide_pv"}

\* the scenario rows of compute_weighted_averages: the savings table with
\* the survey weights and the zone shares joined
weighted_scenarios(savings, c) ==
    LET survey_weights == compute_survey_weights(c)
        zone_shares == compute_zone_new_construction_shares(c)
        joined == JoinWeights(savings, survey_weights, zone_shares)
        F(r) == [pct_new_construction_fuel_zone |->
                    Pct(r["pct_ff_using_fuel"], r["pct_new_construction_in_zone"])]
    IN  WithColumns(joined, {"pct_new_construction_fuel_zone"}, F)

\* the orders in which the two group_by calls of one technology may return
\* the groups of its aggregate frames
TechOrders(aggs) ==
    [fuel : GroupOrders(Len(aggs.fuel_agg)), zone : GroupOrders(Len(aggs.zone_agg))]

\* all_aggregates.extend([fuel_agg, zone_agg, overall_agg]), the groups in
\* the orders the group_by calls returned
Extend(aggs, orders) ==
    InOrder(aggs.fuel_agg, orders.fuel) \o InOrder(aggs.zone_agg, orders.zone)
    \o aggs.overall_agg

\* the tables compute_weighted_averages may return, one for each order in
\* which its group_by calls may return their groups; savings is the table
\* its first line gets from compute_savings.  The scenario rows have a null
\* key, and concat(how="diagonal") leaves the columns a row lacks null
compute_weighted_averages(savings, c) ==
    LET scenarios == weighted_scenarios(savings, c)
        ccashp == tech_aggregates(scenarios, "ccASHP")
        gshp == tech_aggregates(scenarios, "GSHP")
    IN  {[columns |-> scenarios.columns \cup AggregateColumns,
          rows |-> scenarios.rows \o Extend(ccashp, o1) \o Extend(gshp, o2)] :
            o1 \in TechOrders(ccashp), o2 \in TechOrders(gshp)}

-----------------------------------------------------------------------------
(* Tidy results                                                            *)

\* _unit_suffix
unit_suffix(unit) ==
    CASE unit = "$" -> "dollars"
      [] unit = "$/yr" -> "dollars_per_year"
      [] unit = "$_PV" -> "dollars_pv"

\* (measure_name, baseline_source_col, hp_source_col, unit)
paired ==
    <<<<"equipment_cost", "baseline_equipment_total", "hp_equipment_total", "$">>,
      <<"equipment_cost_incl_service_line",
        "baseline_equipment_with_service_line", "hp_equipment_total", "$">>,
      <<"yearly_operating", "baseline_yearly_operating",
        "hp_yearly_operating_total", "$/yr">>,
      <<"yearly_mortgage", "_bl_mortgage", "_hp_mortgage", "$/yr">>,
      <<"yearly_mortgage_incl_service_line", "_bl_mortgage_sl", "_hp_mortgage",
        "$/yr">>>>

\* (measure_name, source_col, unit)
delta_only ==
    <<<<"yearly_total_savings", "total_yearly_savings_with_service_line", "$/yr">>,
      <<"present_value_15yr", "present_value_15yr", "$_PV">>,
      <<"construction_savings", "construction_savings_with_service_line", "$">>,
      <<"yearly_mortgage_savings", "mortgage_savings_with_service_line", "$/yr">>,
      <<"yearly_operating_savings", "operating_savings", "$/yr">>>>

\* every value column that appears in the output
val_cols ==
    {paired[i][2] : i \in DOMAIN paired} \cup {paired[i][3] : i \in DOMAIN paired}
    \cup {delta_only[i][2] : i \in DOMAIN delta_only}

\* round(n / d, 2) in cents, halves to the even cent (d > 0)
Round2(n, d) ==
    LET q == (n * 100) \div d
        rem == (n * 100) % d
    IN  IF 2 * rem > d \/ (2 * rem = d /\ q % 2 = 1) THEN q + 1 ELSE q

\* _wmean: the value columns as fractions num / den
wmean(rows, weight_col) ==
    [col \in val_cols |->
        [num |-> WeightedSum(rows, col, weight_col),
         den |-> WeightTotal(rows, weight_col)]]

\* the value columns of row idx, as fractions
RowValues(rows, idx) ==
    [col \in val_cols |-> [num |-> rows[idx][col], den |-> 1]]

\* the column names of a tidy row
TidyName(side, name, unit) ==
    <<side, name, unit_suffix(unit)>>

\* _make_row: a column f"{side}-{name}-{sfx}" is the triple <<side, name, sfx>>;
\* src holds the source values as fractions with one denominator
make_row(bt, ht, geo, src) ==
    LET ids == (<<"baseline_tech">> :> bt) @@ (<<"hp_tech">> :> ht)
               @@ (<<"geography">> :> geo)
        deltas == [k \in {TidyName("delta", delta_only[i][1], delta_only[i][3]) :
                          i \in DOMAIN delta_only} |->
                    LET i == CHOOSE j \in DOMAIN delta_only :
                                TidyName("delta", delta_only[j][1], delta_only[j][3]) = k
                        v == src[delta_only[i][2]]
                    IN  Round2(v.num, v.den)]
        pair(side) ==
                  [k \in {TidyName(side, paired[i][1], paired[i][4]) :
                          i \in DOMAIN paired} |->
                    LET i == CHOOSE j \in DOMAIN paired :
                                TidyName(side, paired[j][1], paired[j][4]) = k
                        bl == src[paired[i][2]]
                        hp == src[paired[i][3]]
                    IN  CASE side = "baseline" -> Round2(bl.num, bl.den)
                          [] side = "hp" -> Round2(hp.num, hp.den)
                          [] side = "delta" -> Round2(bl.num - hp.num, bl.den)]
        \* a later assignment to the same key replaces the earlier one
    IN  pair("delta") @@ pair("hp") @@ pair("baseline") @@ deltas @@ ids

\* the rows of one pass of the loop over the technologies; wt is the rows
\* of tech
tidy_rows(wt, tech) ==
    LET scenario_rows ==
            Rows([i \in DOMAIN wt |->
                make_row(wt[i]["fuel"] \o "_furnace", tech,
                         "Zone " \o wt[i]["zone"], RowValues(wt, i))])
        fuel_rows ==
            Rows([i \in DOMAIN FUELS |->
                LET P(r) == r["fuel"] = FUELS[i]
                IN  make_row(FUELS[i] \o "_furnace", tech, "Statewide",
                             wmean(FilterSeq(wt, P),
                                   "pct_new_construction_in_zone"))])
        zone_rows ==
            Rows([i \in DOMAIN ZONES |->
                LET P(r) == r["zone"] = ZONES[i]
                IN  make_row("all_fossil_fuels", tech, "Zone " \o ZONES[i],
                             wmean(FilterSeq(wt, P), "pct_ff_using_fuel"))])
    IN  scenario_rows \o fuel_rows \o zone_rows
        \o <<make_row("all_fossil_fuels", tech, "Statewide",
                      wmean(wt, "_w_overall"))>>

\* pl.DataFrame(rows)
DataFrame(rows) ==
    [columns |-> IF rows = <<>> THEN {} ELSE DOMAIN rows[1], rows |-> rows]

\* the mortgage columns of build_tidy_results: principal * pmt_factor with
\* pmt_factor = rate / (1 - (1 + rate)^(-n)), the payment _pmt gives for the
\* rate and the term of the first row of savings
enriched(savings) ==
    LET rate == savings.rows[1]["mortgage_rate"]
        n == savings.rows[1]["mortgage_term_years"]
        F1(r) ==
            [_bl_mortgage |-> pmt(r["baseline_equipment_total"], rate, n),
             _bl_mortgage_sl |->
                pmt(r["baseline_equipment_with_service_line"], rate, n),
             _hp_mortgage |-> pmt(r["hp_equipment_total"], rate, n)]
    IN  WithColumns(savings, {"_bl_mortgage", "_bl_mortgage_sl", "_hp_mortgage"},
                    F1)

\* the frame w of build_tidy_results: the savings table with the mortgage
\* columns, the weights and _w_overall
tidy_weighted(savings, c) ==
    LET survey_weights == compute_survey_weights(c)
        zone_shares == compute_zone_new_construction_shares(c)
        w0 == JoinWeights(enriched(savings), survey_weights, zone_shares)
        F2(r) == [_w_overall |->
                    Pct(r["pct_ff_using_fuel"], r["pct_new_construction_in_zone"])]
    IN  WithColumns(w0, {"_w_overall"}, F2)

\* _wmean divides by total = df[weight_col].sum(): python raises
\* ZeroDivisionError when the weights of the filtered frame sum to zero, as
\* they do for a fuel or a zone that has no row
wmean_raises(wt) ==
    \/ \E i \in DOMAIN FUELS :
        LET P(r) == r["fuel"] = FUELS[i]
        IN  WeightTotal(FilterSeq(wt, P), "pct_new_construction_in_zone") = 0
    \/ \E i \in DOMAIN ZONES :
        LET P(r) == r["zone"] = ZONES[i]
        IN  WeightTotal(FilterSeq(wt, P), "pct_ff_using_fuel") = 0
    \/ WeightTotal(wt, "_w_overall") = 0

\* build_tidy_results raises in one of the passes of its loop
build_tidy_results_raises(savings, c) ==
    \E tech \in {"ccASHP", "GSHP"} :
        wmean_raises(TechRows(tidy_weighted(savings, c), tech))

build_tidy_results(savings, c) ==
    LET w == tidy_weighted(savings, c)
    IN  DataFrame(tidy_rows(TechRows(w, "ccASHP"), "ccASHP")
                  \o tidy_rows(TechRows(w, "GSHP"), "GSHP"))

-----------------------------------------------------------------------------
(* The inputs of a run                                                     *)

\* the largest number of (fuel, zone) keys in an overrides mapping
MaxKeys ==
    2

\* the (fuel, zone) keys an overrides mapping may hold; the last one matches
\* no scenario row
OverrideKeys ==
    <<[fuel |-> "natural_gas", zone |-> "4"],
      [fuel |-> "propane", zone |-> "5"],
      [fuel |-> "natural_gas", zone |-> "7"]>>

\* the {param_name: value} dicts of an overrides mapping: input parameters,
\* columns that later stages compute, and a name that is no column at all.
\* The names are parameter names: the identifier columns fuel, zone and
\* hp_technology are never among them
ParamDicts ==
    {<<<<"hdd", 7000>>, <<"discount_rate", 7>>>>,
     <<<<"floor_area_sf", 1800>>, <<"wall_height_ft", 9>>,
       <<"propane_tank_cost", 3000>>, <<"ny_geo_tax_credit_cap", 5000>>>>,
     <<<<"mortgage_rate", 8>>, <<"no_such_column", 1>>>>,
     <<<<"yearly_btu", 50000000>>>>,
     <<<<"hp_equipment_total", 9000>>, <<"construction_savings", 5>>,
       <<"service_line_cost", 0>>>>}

\* Overrides: dict[(fuel, zone), dict[param_name, value]] | None
OverrideInputs ==
    LET n == Len(OverrideKeys)
        KeySets == {K \in SUBSET (1..n) : Cardinality(K) <= MaxKeys}
        \* the keys of K in the order of OverrideKeys
        RECURSIVE Entries(_, _, _)
        Entries(K, f, i) ==
            IF i > n THEN <<>>
            ELSE (IF i \in K
                  THEN <<[fuel |-> OverrideKeys[i].fuel,
                          zone |-> OverrideKeys[i].zone,
                          params |-> f[i]]>>
                  ELSE <<>>) \o Entries(K, f, i + 1)
    IN  UNION {{Entries(K, f, 1) : f \in [K -> ParamDicts]} : K \in KeySets}

-----------------------------------------------------------------------------
(* The run.  A test or main() calls a function of the pipeline with the    *)
(* overrides of the run.  Every stage function begins by calling the stage *)
(* before it with the same overrides, so the innermost function,           *)
(* build_scenario_table, returns first and the called function last.       *)

\* the stage functions, each calling the one before it
Chain ==
    <<"build_scenario_table", "compute_building_geometry",
      "compute_heat_loss_rates", "compute_yearly_btu", "compute_system_sizing",
      "compute_baseline_costs", "compute_heat_pump_costs", "compute_savings">>

\* the functions that begin with compute_savings
AfterSavings ==
    {"compute_weighted_averages", "build_tidy_results", "run_model"}

Callable ==
    {Chain[i] : i \in DOMAIN Chain} \cup AfterSavings

\* run_model() calls compute_savings() without overrides
EffectiveOverrides ==
    IF called = "run_model" THEN <<>> ELSE overrides

Idle ==
    called = "none" \/ stage = called

\* no call of the validation harness is under way
NoHarness ==
    [pc |-> "none"]

\* no downloader is running
NoDownload ==
    [pc |-> "none"]

Init ==
    /\ cfg \in Configs
    /\ overrides \in OverrideInputs
    /\ called = "none"
    /\ stage = "none"
    /\ result = NoTable
    /\ last = NoTable
    /\ harness = NoHarness
    /\ download = NoDownload

\* a function of the pipeline is called
Invoke ==
    /\ Idle
    /\ \E f \in Callable : called' = f
    /\ stage' = "entered"
    /\ result' = NoTable
    /\ last' = NoTable
    /\ UNCHANGED <<cfg, overrides, harness, download>>

\* the function that has just returned is called a second time
InvokeAgain ==
    /\ called # "none" /\ stage = called
    /\ last = NoTable
    /\ stage' = "entered"
    /\ result' = NoTable
    /\ last' = result
    /\ UNCHANGED <<cfg, overrides, called, harness, download>>

\* the function name returns df to the function that called it
Returns(name, df) ==
    /\ stage' = name
    /\ result' = df
    /\ UNCHANGED <<cfg, overrides, called, last, harness, download>>

\* the running call has reached the body of the stage after before
Reached(before) ==
    called # "none" /\ stage = before /\ stage # called

Run_build_scenario_table ==
    /\ Reached("entered")
    /\ Returns("build_scenario_table",
               build_scenario_table(cfg, EffectiveOverrides))

Run_compute_building_geometry ==
    /\ Reached("build_scenario_table")
    /\ Returns("compute_building_geometry", compute_building_geometry(result))

Run_compute_heat_loss_rates ==
    /\ Reached("compute_building_geometry")
    /\ Returns("compute_heat_loss_rates", compute_heat_loss_rates(result))

Run_compute_yearly_btu ==
    /\ Reached("compute_heat_loss_rates")
    /\ Returns("compute_yearly_btu", compute_yearly_btu(result))

Run_compute_system_sizing ==
    /\ Reached("compute_yearly_btu")
    /\ Returns("compute_system_sizing", compute_system_sizing(result, cfg))

\* model_params["propane_tank_cost"] raises KeyError when the file lacks the
\* key, after compute_system_sizing has returned
Run_compute_baseline_costs ==
    /\ Reached("compute_system_sizing")
    /\ IF "propane_tank_cost" \in DOMAIN load_model_params(cfg)
       THEN Returns("compute_baseline_costs", compute_baseline_costs(result, cfg))
       ELSE Returns("KeyError", NoTable)

Run_compute_heat_pump_costs ==
    /\ Reached("compute_baseline_costs")
    /\ Returns("compute_heat_pump_costs", compute_heat_pump_costs(result, cfg))

\* the second line of compute_savings: the overrides are applied again to
\* the table compute_heat_pump_costs returned
Run_apply_overrides ==
    /\ Reached("compute_heat_pump_costs")
    /\ Returns("apply_overrides", apply_overrides(result, EffectiveOverrides))

Run_compute_savings ==
    /\ Reached("apply_overrides")
    /\ Returns("compute_savings", compute_savings(result))

\* compute_weighted_averages(overrides): its group_by calls return their
\* groups in an order the call does not control
Run_compute_weighted_averages ==
    /\ Reached("compute_savings")
    /\ called = "compute_weighted_averages"
    /\ \E df \in compute_weighted_averages(result, cfg) :
            Returns("compute_weighted_averages", df)

\* build_tidy_results(compute_savings(overrides))
Run_build_tidy_results ==
    /\ Reached("compute_savings")
    /\ called = "build_tidy_results"
    /\ IF build_tidy_results_raises(result, cfg)
       THEN Returns("ZeroDivisionError", NoTable)
       ELSE Returns("build_tidy_results", build_tidy_results(result, cfg))

\* run_model() returns what compute_savings() returned
Run_run_model ==
    /\ Reached("compute_savings")
    /\ called = "run_model"
    /\ Returns("run_model", result)

RunStage ==
    \/ Run_build_scenario_table
    \/ Run_compute_building_geometry
    \/ Run_compute_heat_loss_rates
    \/ Run_compute_yearly_btu
    \/ Run_compute_system_sizing
    \/ Run_compute_baseline_costs
    \/ Run_compute_heat_pump_costs
    \/ Run_apply_overrides
    \/ Run_compute_savings
    \/ Run_compute_weighted_averages
    \/ Run_build_tidy_results
    \/ Run_run_model

Next ==
    \/ Invoke
    \/ RunStage

Spec ==
    Init /\ [][Next]_vars

\* the overrides of the runs that make the same call twice: none, or hdd
\* for one scenario
TwiceInputs ==
    {ov \in OverrideInputs :
        \/ Len(ov) = 0
        \/ Len(ov) = 1 /\ ov[1].zone = "4" /\ ov[1].params[1][1] = "hdd"}

\* the runs that make the same call twice
InitTwice ==
    /\ cfg \in Configs
    /\ overrides \in TwiceInputs
    /\ called = "none"
    /\ stage = "none"
    /\ result = NoTable
    /\ last = NoTable
    /\ harness = NoHarness
    /\ download = NoDownload

NextTwice ==
    \/ Invoke
    \/ InvokeAgain
    \/ RunStage

SpecTwice ==
    InitTwice /\ [][NextTwice]_vars

\* the runs over the county files, the malformed one included
InitZones ==
    /\ cfg \in ZoneConfigs
    /\ overrides \in TwiceInputs
    /\ called = "none"
    /\ stage = "none"
    /\ result = NoTable
    /\ last = NoTable
    /\ harness = NoHarness
    /\ download = NoDownload

SpecZones ==
    InitZones /\ [][Next]_vars

\* the runs over the model_params files, the incomplete one included
InitParams ==
    /\ cfg \in ParamConfigs
    /\ overrides \in TwiceInputs
    /\ called = "none"
    /\ stage = "none"
    /\ result = NoTable
    /\ last = NoTable
    /\ harness = NoHarness
    /\ download = NoDownload

SpecParams ==
    InitParams /\ [][Next]_vars

-----------------------------------------------------------------------------
(* Validation harness: _recalculate_workbook (tests/conftest.py)           *)

\* the modifications arguments of the calls: None, or a dict from
\* "SheetName!CellRef" or "CellRef" keys to values (a key is the sequence of
\* its parts around "!")
Modifications ==
    {<<>>,
     <<[key |-> <<"C8">>, value |-> 7000]>>,
     <<[key |-> <<"Model", "C8">>, value |-> 7000],
       [key |-> <<"County information", "J66">>, value |-> 12]>>}

\* the stdout and stderr texts of the engine process
Outputs ==
    {"", "convert input/workbook.xlsx", "Error: source file could not be loaded"}

\* the exit statuses of the engine process
ReturnCodes ==
    {0, 1}

\* key.split("!", 1), the Model sheet assumed for a key without "!"
SheetAndCell(key) ==
    IF Len(key) = 2 THEN key ELSE <<"Model", key[1]>>

\* the cells written into the working copy: ws[cell_ref] = value for every
\* modification, in order, a later one replacing an earlier one of its cell
RECURSIVE WrittenCells(_, _)
WrittenCells(mods, n) ==
    IF n = 0 THEN <<>>
    ELSE LET before == WrittenCells(mods, n - 1)
             at == SheetAndCell(mods[n].key)
         IN  [c \in DOMAIN before \cup {at} |->
                 IF c = at THEN mods[n].value ELSE before[c]]

\* pytest.fail(message): the test fails with the message in its report
Fail(message) ==
    [kind |-> "pytest.fail", message |-> message]

\* the harness is called with a temporary directory that is empty
InitHarness ==
    /\ cfg \in {c \in Configs : c.coned_gshp_rebate = 4000}
    /\ overrides = <<>>
    /\ called = "none"
    /\ stage = "none"
    /\ result = NoTable
    /\ last = NoTable
    /\ \E exists \in BOOLEAN, m \in Modifications :
        harness = [pc |-> "called", workbook_exists |-> exists,
                   modifications |-> m, files |-> <<>>, process |-> <<>>,
                   outcome |-> <<>>]
    /\ download = NoDownload

\* up to wb.close(): without the workbook the test fails; otherwise the
\* workbook is copied to input/, the modifications are written into the copy
\* and the copy is saved
PrepareWorkbook ==
    /\ harness.pc = "called"
    /\ IF ~harness.workbook_exists
       THEN harness' = [harness EXCEPT
                !.pc = "pytest.fail",
                !.outcome = <<Fail(<<"Excel workbook not found at", "WORKBOOK_PATH">>)>>]
       ELSE harness' = [harness EXCEPT
                !.pc = "saved",
                !.files = ("input/workbook.xlsx" :>
                            WrittenCells(harness.modifications,
                                         Len(harness.modifications)))]
    /\ UNCHANGED <<cfg, overrides, called, stage, result, last, download>>

\* subprocess.run(["libreoffice", ...], capture_output=True, text=True,
\* timeout=120): the engine exits with some status, having written the
\* output file or not, or it is killed after 120 seconds and TimeoutExpired
\* is raised, whose message names the command and the timeout and whose
\* attributes hold the output captured so far
RunEngine ==
    /\ harness.pc = "saved"
    /\ \E out \in Outputs, err \in Outputs, written \in BOOLEAN :
        LET files == IF written
                     THEN ("output/workbook.xlsx" :> harness.files["input/workbook.xlsx"])
                          @@ harness.files
                     ELSE harness.files
        IN  \/ \E rc \in ReturnCodes :
                harness' = [harness EXCEPT
                    !.pc = "ran",
                    !.files = files,
                    !.process = <<[returncode |-> rc, stdout |-> out,
                                   stderr |-> err]>>]
            \/ harness' = [harness EXCEPT
                    !.pc = "TimeoutExpired",
                    !.files = files,
                    !.outcome = <<[kind |-> "TimeoutExpired",
                                   message |-> <<"Command", "libreoffice",
                                                 "timed out after 120 seconds">>,
                                   stdout |-> out, stderr |-> err]>>]
    /\ UNCHANGED <<cfg, overrides, called, stage, result, last, download>>

\* the checks after the engine has exited, and the return
CheckRecalculation ==
    /\ harness.pc = "ran"
    /\ LET process == harness.process[1]
           recalculated_path == "output/workbook.xlsx"
       IN  IF process.returncode # 0
           THEN harness' = [harness EXCEPT
                    !.pc = "pytest.fail",
                    !.outcome = <<Fail(<<"LibreOffice recalculation failed",
                                         process.returncode, process.stdout,
                                         process.stderr>>)>>]
           ELSE IF recalculated_path \notin DOMAIN harness.files
           THEN harness' = [harness EXCEPT
                    !.pc = "pytest.fail",
                    !.outcome = <<Fail(<<"Recalculated workbook not found at",
                                         recalculated_path, process.stdout,
                                         process.stderr>>)>>]
           ELSE harness' = [harness EXCEPT
                    !.pc = "returned",
                    !.outcome = <<[kind |-> "RecalculatedWorkbook",
                                   path |-> recalculated_path,
                                   modifications |-> harness.modifications]>>]
    /\ UNCHANGED <<cfg, overrides, called, stage, result, last, download>>

NextHarness ==
    \/ PrepareWorkbook
    \/ RunEngine
    \/ CheckRecalculation

SpecHarness ==
    InitHarness /\ [][NextHarness]_vars

-----------------------------------------------------------------------------
(* Validation harness: the recalculate factory fixture (tests/conftest.py) *)

\* the largest number of calls of the factory within one test
MaxCalls ==
    3

\* the ways a call of _recalculate_workbook(subdir, modifications) may end,
\* with the files it leaves in subdir: WORKBOOK_PATH is missing (nothing is
\* created), the engine fails or leaves no output, the engine runs into the
\* timeout, or the recalculated workbook is returned
RecalculationOutcomes ==
    {[kind |-> "pytest.fail", files |-> {}],
     [kind |-> "pytest.fail", files |-> {"input/workbook.xlsx"}],
     [kind |-> "pytest.fail",
      files |-> {"input/workbook.xlsx", "output/workbook.xlsx"}],
     [kind |-> "TimeoutExpired", files |-> {"input/workbook.xlsx"}],
     [kind |-> "RecalculatedWorkbook",
      files |-> {"input/workbook.xlsx", "output/workbook.xlsx"}]}

\* a test that uses the fixture starts: created = [], tmp_path is empty
InitFactory ==
    /\ cfg \in {c \in Configs : c.coned_gshp_rebate = 4000}
    /\ overrides = <<>>
    /\ called = "none"
    /\ stage = "none"
    /\ result = NoTable
    /\ last = NoTable
    /\ harness = [pc |-> "test", tmp_path |-> <<>>, created |-> <<>>,
                  calls |-> <<>>, workbook_written |-> FALSE]
    /\ download = NoDownload

\* _factory(modifications): subdir is named after the number of workbooks
\* created so far; mkdir raises FileExistsError when the directory exists;
\* a workbook that is returned is appended to created.  The test may catch
\* a failure and go on
CallFactory ==
    /\ harness.pc = "test"
    /\ Len(harness.calls) < MaxCalls
    /\ \E modifications \in Modifications :
        LET subdir == <<"run", Len(harness.created)>>
        IN  IF subdir \in DOMAIN harness.tmp_path
            THEN harness' = [harness EXCEPT
                    !.calls = Append(@, [subdir |-> subdir,
                                         outcome |-> "FileExistsError"])]
            ELSE \E o \in RecalculationOutcomes :
                    harness' = [harness EXCEPT
                        !.tmp_path = (subdir :> o.files) @@ @,
                        !.calls = Append(@, [subdir |-> subdir,
                                             outcome |-> o.kind]),
                        !.created =
                            IF o.kind = "RecalculatedWorkbook"
                            THEN Append(@, [path |-> <<subdir, "output/workbook.xlsx">>,
                                            modifications |-> modifications,
                                            wb_open |-> FALSE,
                                            closed |-> FALSE])
                            ELSE @]
    /\ UNCHANGED <<cfg, overrides, called, stage, result, last, download>>

\* wb.cell_value(...): the recalculated workbook is loaded at its first use
ReadCell ==
    /\ harness.pc = "test"
    /\ \E k \in DOMAIN harness.created :
        /\ ~harness.created[k].wb_open
        /\ harness' = [harness EXCEPT !.created[k].wb_open = TRUE]
    /\ UNCHANGED <<cfg, overrides, called, stage, result, last, download>>

\* after the yield: for wb in created: wb.close()
Teardown ==
    /\ harness.pc = "test"
    /\ harness' = [harness EXCEPT
            !.pc = "done",
            !.created = [k \in DOMAIN harness.created |->
                            [harness.created[k] EXCEPT
                                !.wb_open = FALSE, !.closed = TRUE]]]
    /\ UNCHANGED <<cfg, overrides, called, stage, result, last, download>>

NextFactory ==
    \/ CallFactory
    \/ ReadCell
    \/ Teardown

SpecFactory ==
    InitFactory /\ [][NextFactory]_vars

-----------------------------------------------------------------------------
(* The paged downloaders (il_npa/utils/download_cookcounty_parcels.py and  *)
(* download_chicago_buildings.py): main                                     *)

\* batch_size, scaled down
BatchSize ==
    2

\* the largest number of records the portal holds
MaxCount ==
    5

Downloaders ==
    {"download_cookcounty_parcels", "download_chicago_buildings"}

\* the records of the portal from position offset + 1 on, at most limit
Page(total, limit, offset) ==
    {k \in 1..total : offset < k /\ k <= offset + limit}

\* what one batch request may give: an exception (raise_for_status, a
\* timeout, a body that is no JSON), or a response with any number of the
\* records of the page, none included; a response of the building portal
\* may also lack the "features" key
BatchResponses(tool, total, limit, offset) ==
    {[kind |-> "exception", records |-> {}]}
    \cup {[kind |-> "records", records |-> Page(total, n, offset)] :
            n \in 0..limit}
    \cup (IF tool = "download_chicago_buildings"
          THEN {[kind |-> "no_features_key", records |-> {}]}
          ELSE {})

\* main() of one of the downloaders starts; the portal holds the records
\* 1..portal
InitDownload ==
    /\ cfg \in {c \in Configs : c.coned_gshp_rebate = 4000}
    /\ overrides = <<>>
    /\ called = "none"
    /\ stage = "none"
    /\ result = NoTable
    /\ last = NoTable
    /\ harness = NoHarness
    /\ \E tool \in Downloaders, portal \in 0..MaxCount :
        download = [pc |-> "get_total_count", tool |-> tool, portal |-> portal,
                    total_count |-> 0, offset |-> 0, batch_num |-> 1,
                    all_features |-> {}, saved |-> <<>>, exit_code |-> <<>>]

\* total_count = get_total_count(headers): an exception of the request goes
\* to the outer handler (return 1); a count of 0 returns 1
GetTotalCount ==
    /\ download.pc = "get_total_count"
    /\ \/ download' = [download EXCEPT !.pc = "done", !.exit_code = <<1>>]
       \/ download' =
            IF download.portal = 0
            THEN [download EXCEPT !.pc = "done", !.exit_code = <<1>>]
            ELSE [download EXCEPT !.pc = "while",
                                  !.total_count = download.portal]
    /\ UNCHANGED <<cfg, overrides, called, stage, result, last, harness>>

\* one pass of while offset < total_count: the features of a batch are
\* appended and offset moves on by batch_size; a batch without records and
\* an exception leave the loop
FetchBatch ==
    /\ download.pc = "while"
    /\ download.offset < download.total_count
    /\ \E response \in BatchResponses(download.tool, download.portal,
                                      BatchSize, download.offset) :
        download' =
            IF response.kind = "records" /\ response.records # {}
            THEN [download EXCEPT
                    !.all_features = @ \cup response.records,
                    !.offset = @ + BatchSize,
                    !.batch_num = @ + 1]
            ELSE [download EXCEPT !.pc = "save"]
    /\ UNCHANGED <<cfg, overrides, called, stage, result, last, harness>>

\* after the loop: the GeoJSON with all_features is written, "SUCCESS!" is
\* printed and main returns 0; an exception while the file is written goes
\* to the outer handler (return 1)
SaveGeoJson ==
    /\ \/ download.pc = "save"
       \/ download.pc = "while" /\ download.offset >= download.total_count
    /\ \/ download' = [download EXCEPT !.pc = "done",
                                       !.saved = <<download.all_features>>,
                                       !.exit_code = <<0>>]
       \/ download' = [download EXCEPT !.pc = "done", !.exit_code = <<1>>]
    /\ UNCHANGED <<cfg, overrides, called, stage, result, last, harness>>

NextDownload ==
    \/ GetTotalCount
    \/ FetchBatch
    \/ SaveGeoJson

SpecDownload ==
    InitDownload /\ [][NextDownload]_vars

\* main runs on: a step that is possible is taken
FairSpecDownload ==
    SpecDownload /\ WF_vars(NextDownload)

-----------------------------------------------------------------------------
(* Properties                                                              *)

StageFunctions ==
    {Chain[i] : i \in DOMAIN Chain}

\* the value of column col in row r: <<v>>, or <<>> for null
Cell(r, col) ==
    IF col \in DOMAIN r THEN <<r[col]>> ELSE <<>>

\* the values ov names for column col under the (fuel, zone) key of row r
OverrideValues(ov, r, col) ==
    UNION {{ov[k].params[m][2] :
                m \in {n \in DOMAIN ov[k].params : ov[k].params[n][1] = col}} :
           k \in {j \in DOMAIN ov : ov[j].fuel = r["fuel"] /\ ov[j].zone = r["zone"]}}

\* the values of a set as cells
Cells(V) ==
    {<<v>> : v \in V}

\* the columns build_scenario_table returns: the input parameters
ParameterColumns ==
    UNION {build_scenario_table(c, <<>>).columns : c \in Configs}

\* the columns compute_savings adds
SavingsColumns ==
    compute_savings([columns |-> {}, rows |-> <<>>]).columns

\* out is df with the overrides ov applied, and nothing else changed
OverridesApplied(df, out, ov) ==
    /\ Len(out.rows) = Len(df.rows)
    /\ out.columns = df.columns
    /\ \A i \in DOMAIN df.rows :
        /\ DOMAIN out.rows[i] \subseteq df.columns
        /\ \A col \in df.columns :
            IF OverrideValues(ov, df.rows[i], col) # {}
            THEN Cell(out.rows[i], col)
                    \in Cells(OverrideValues(ov, df.rows[i], col))
            ELSE Cell(out.rows[i], col) = Cell(df.rows[i], col)

\* C1: _apply_overrides(df, overrides) leaves the number and order of the
\* rows and the columns as they are; a row whose (fuel, zone) is a key holds
\* the override value in every column named under the key that df has, the
\* ccASHP row and the GSHP row alike; every other cell keeps its value.
C1_ApplyOverridesFrame ==
    [][stage' = "apply_overrides"
        => OverridesApplied(result, result', EffectiveOverrides)]_vars

\* _apply_overrides has replaced a computed column on the rows of one key,
\* has left it on the others and has skipped a name that is no column
C1_Witness ==
    /\ stage = "apply_overrides"
    /\ Len(overrides) = 2
    /\ \E i, j \in DOMAIN result.rows :
        /\ OverrideValues(overrides, result.rows[i], "yearly_btu") = {50000000}
        /\ result.rows[i]["yearly_btu"] = 50000000
        /\ result.rows[j]["yearly_btu"] # 50000000
        /\ OverrideValues(overrides, result.rows[j], "no_such_column") = {1}
        /\ "no_such_column" \notin DOMAIN result.rows[j]

\* the rows of result that hold the override value in every overridden
\* column among cols
HoldsOverrides(cols) ==
    \A i \in DOMAIN result.rows :
        \A col \in cols \cap result.columns :
            OverrideValues(EffectiveOverrides, result.rows[i], col) # {}
            => Cell(result.rows[i], col)
                \in Cells(OverrideValues(EffectiveOverrides, result.rows[i], col))

\* C2 as stated: in the output of every stage function, every overridden
\* column of the output holds the override value on the rows of its key.
C2_AsStated ==
    stage \in StageFunctions => HoldsOverrides(result.columns)

\* C2: in the output of every stage function an overridden input parameter
\* column holds the override value on the rows of its key; in the output of
\* compute_savings so does every overridden column that
\* compute_heat_pump_costs returns.
C2_OverridesReadBack ==
    /\ stage \in StageFunctions => HoldsOverrides(ParameterColumns)
    /\ stage = "compute_savings" => HoldsOverrides(result.columns \ SavingsColumns)

\* compute_savings returned an overridden input parameter and an overridden
\* computed column with their override values
C2_Witness ==
    /\ stage = "compute_savings"
    /\ \E i, j \in DOMAIN result.rows :
        /\ OverrideValues(overrides, result.rows[i], "mortgage_rate") = {8}
        /\ result.rows[i]["mortgage_rate"] = 8
        /\ OverrideValues(overrides, result.rows[j], "hp_equipment_total") = {9000}
        /\ result.rows[j]["hp_equipment_total"] = 9000

\* the rows of df for one (fuel, zone, hp_technology) triple
RowsOfTriple(df, f, z, t) ==
    {i \in DOMAIN df.rows :
        /\ Cell(df.rows[i], "fuel") = <<f>>
        /\ Cell(df.rows[i], "zone") = <<z>>
        /\ Cell(df.rows[i], "hp_technology") = <<t>>}

\* C3: the output of every stage function, and of run_model, has exactly 12
\* rows, one for each (fuel, zone, hp_technology) triple, 6 per technology.
C3_TwelveRows ==
    stage \in StageFunctions \cup {"run_model"}
    => /\ Len(result.rows) = 12
       /\ \A f \in {"natural_gas", "propane"} : \A z \in {"4", "5", "6"} :
            \A t \in {"ccASHP", "GSHP"} :
                Cardinality(RowsOfTriple(result, f, z, t)) = 1
       /\ \A t \in {"ccASHP", "GSHP"} :
            Cardinality({i \in DOMAIN result.rows :
                            result.rows[i]["hp_technology"] = t}) = 6

\* compute_savings returned 12 rows for an overrides mapping with two keys
C3_Witness ==
    /\ stage = "compute_savings"
    /\ called = "compute_savings"
    /\ Len(overrides) = 2
    /\ Len(result.rows) = 12

\* the two cost-column families
CcashpColumns ==
    {"ccashp_hspf2", "ccashp_maintenance_cost", "ccashp_equipment_cost",
     "ccashp_rebate", "ccashp_federal_tax_credit", "ccashp_net_cost",
     "ccashp_yearly_kwh", "ccashp_yearly_electrical_cost",
     "ccashp_yearly_operating_cost"}

GshpColumns ==
    {"gshp_cop", "gshp_maintenance_cost", "gshp_equipment_cost", "gshp_rebate",
     "gshp_ny_tax_credit", "gshp_federal_tax_credit", "gshp_net_cost",
     "gshp_yearly_kwh", "gshp_yearly_electrical_cost",
     "gshp_yearly_operating_cost"}

\* in row r the columns own are not all zero and the columns other are 0.0
OneFamily(r, own, other) ==
    /\ \E col \in own : Cell(r, col) # <<0>>
    /\ \A col \in other : Cell(r, col) = <<0>>

\* every row of df has exactly one of the two families, among cols, non-zero
Isolated(df, cols) ==
    \A i \in DOMAIN df.rows :
        IF df.rows[i]["hp_technology"] = "ccASHP"
        THEN OneFamily(df.rows[i], CcashpColumns \cap cols, GshpColumns \cap cols)
        ELSE OneFamily(df.rows[i], GshpColumns \cap cols, CcashpColumns \cap cols)

\* C4 as stated: in the output of compute_heat_pump_costs every ccashp_*
\* column is 0.0 on GSHP rows and every gshp_* column is 0.0 on ccASHP rows.
C4_AsStated ==
    stage = "compute_heat_pump_costs" => Isolated(result, result.columns)

\* C4: of the ccashp_* and gshp_* columns that compute_heat_pump_costs adds
\* to the table, one family is non-zero on every row and the other is
\* exactly 0.0, never null.
C4_TechnologyIsolation ==
    [][stage' = "compute_heat_pump_costs"
        => Isolated(result', result'.columns \ result.columns)]_vars

\* compute_heat_pump_costs returned a GSHP row with a GSHP equipment cost and
\* no ccASHP equipment cost, and a ccASHP row the other way round
C4_Witness ==
    /\ stage = "compute_heat_pump_costs"
    /\ \E i, j \in DOMAIN result.rows :
        /\ result.rows[i]["hp_technology"] = "GSHP"
        /\ result.rows[i]["gshp_equipment_cost"] > 0
        /\ result.rows[i]["ccashp_equipment_cost"] = 0
        /\ result.rows[j]["hp_technology"] = "ccASHP"
        /\ result.rows[j]["ccashp_equipment_cost"] > 0
        /\ result.rows[j]["gshp_equipment_cost"] = 0

\* equipment cost less the three incentives of row r
GshpCostLessIncentives(r) ==
    r["gshp_equipment_cost"] - r["gshp_rebate"] - r["gshp_ny_tax_credit"]
    - r["gshp_federal_tax_credit"]

\* C5: on every row of the output of compute_heat_pump_costs gshp_net_cost
\* is max(0, equipment cost - rebate - NY tax credit - federal tax credit),
\* never negative.
C5_GshpNetCostFloor ==
    stage = "compute_heat_pump_costs"
    => \A i \in DOMAIN result.rows :
        /\ result.rows[i]["gshp_net_cost"]
            = Max2(0, GshpCostLessIncentives(result.rows[i]))
        /\ result.rows[i]["gshp_net_cost"] >= 0

\* the incentives of a GSHP row exceed its equipment cost, and its net cost
\* is zero
C5_Witness ==
    /\ stage = "compute_heat_pump_costs"
    /\ \E i \in DOMAIN result.rows :
        /\ result.rows[i]["hp_technology"] = "GSHP"
        /\ GshpCostLessIncentives(result.rows[i]) < 0
        /\ result.rows[i]["gshp_net_cost"] = 0

\* C6: on every row of the output of compute_savings,
\* construction_savings_with_service_line is
\* baseline_equipment_with_service_line - hp_equipment_total and
\* construction_savings is baseline_equipment_total - hp_equipment_total.
C6_SignConvention ==
    stage = "compute_savings"
    => \A i \in DOMAIN result.rows :
        /\ result.rows[i]["construction_savings_with_service_line"]
            = result.rows[i]["baseline_equipment_with_service_line"]
              - result.rows[i]["hp_equipment_total"]
        /\ result.rows[i]["construction_savings"]
            = result.rows[i]["baseline_equipment_total"]
              - result.rows[i]["hp_equipment_total"]

\* compute_savings returned a row where the heat pump is dearer and a row
\* where an overridden heat pump cost makes it cheaper
C6_Witness ==
    /\ stage = "compute_savings"
    /\ \E i, j \in DOMAIN result.rows :
        /\ result.rows[i]["construction_savings"] < 0
        /\ OverrideValues(overrides, result.rows[j], "hp_equipment_total") = {9000}
        /\ result.rows[j]["hp_equipment_total"] = 9000
        /\ result.rows[j]["construction_savings"] > 0
        /\ OverrideValues(overrides, result.rows[j], "construction_savings") = {5}

\* the columns compute_building_geometry adds
GeometryColumns ==
    {"wall_length_ft", "wall_surface_area_sf", "attic_floor_area_sf",
     "wall_area_excl_windows_sf", "window_door_area_sf",
     "above_grade_basement_wall_area_sf", "below_grade_basement_wall_area_sf",
     "basement_floor_perimeter_ft", "volume_cf"}

\* rows i and j of result have the same geometry
SameGeometry(i, j) ==
    \A col \in GeometryColumns :
        Cell(result.rows[i], col) = Cell(result.rows[j], col)

\* C7 as stated: in the output of compute_building_geometry the geometry
\* columns are identical on all rows that share a zone, across both fuels
\* and both technologies.
C7_AsStated ==
    stage = "compute_building_geometry"
    => \A i, j \in DOMAIN result.rows :
        result.rows[i]["zone"] = result.rows[j]["zone"] => SameGeometry(i, j)

\* C7: in the output of compute_building_geometry the geometry columns are
\* identical on the rows that share a fuel and a zone, across both
\* technologies; without overrides they are identical on all rows that share
\* a zone.
C7_GeometryInvariance ==
    stage = "compute_building_geometry"
    => \A i, j \in DOMAIN result.rows :
        /\ result.rows[i]["zone"] = result.rows[j]["zone"]
        /\ result.rows[i]["fuel"] = result.rows[j]["fuel"]
           \/ EffectiveOverrides = <<>>
        => SameGeometry(i, j)

\* compute_building_geometry returned, for an overridden floor area, the same
\* geometry for the two technologies of the key and another one for the
\* other fuel of the zone
C7_Witness ==
    /\ stage = "compute_building_geometry"
    /\ \E i, j, k \in DOMAIN result.rows :
        /\ OverrideValues(overrides, result.rows[i], "floor_area_sf") = {1800}
        /\ result.rows[i]["hp_technology"] = "ccASHP"
        /\ result.rows[j]["hp_technology"] = "GSHP"
        /\ result.rows[j]["fuel"] = result.rows[i]["fuel"]
        /\ result.rows[j]["zone"] = result.rows[i]["zone"]
        /\ result.rows[j]["volume_cf"] = result.rows[i]["volume_cf"]
        /\ result.rows[k]["zone"] = result.rows[i]["zone"]
        /\ result.rows[k]["volume_cf"] # result.rows[i]["volume_cf"]

\* C8: a second invocation of compute_savings, compute_weighted_averages or
\* build_tidy_results with the same configuration and the same overrides
\* returns the table the first one returned: the same rows in the same
\* order with the same values.
C8_Determinism ==
    [][(/\ called \in {"compute_savings", "compute_weighted_averages",
                       "build_tidy_results"}
        /\ last # NoTable
        /\ stage # called
        /\ stage' = called)
       => result' = last]_vars

\* the rows of result that hold a key, the aggregate rows
AggregateRows ==
    {i \in DOMAIN result.rows : "key" \in DOMAIN result.rows[i]}

AggregateKeys ==
    {"natural_gas", "propane", "4", "5", "6", "overall"}

\* C9: compute_weighted_averages returns 24 rows: the 12 scenario rows, with
\* a null key, and for each technology exactly 6 aggregate rows, one for
\* each of the keys natural_gas, propane, 4, 5, 6 and overall.
C9_WeightedAverageRows ==
    stage = "compute_weighted_averages"
    => /\ Len(result.rows) = 24
       /\ Cardinality(AggregateRows) = 12
       /\ \A i \in AggregateRows : result.rows[i]["key"] \in AggregateKeys
       /\ \A t \in {"ccASHP", "GSHP"} : \A k \in AggregateKeys :
            Cardinality({i \in AggregateRows :
                            /\ result.rows[i]["hp_technology"] = t
                            /\ result.rows[i]["key"] = k}) = 1
       /\ \A f \in {"natural_gas", "propane"} : \A z \in {"4", "5", "6"} :
            \A t \in {"ccASHP", "GSHP"} :
                Cardinality(RowsOfTriple(result, f, z, t) \ AggregateRows) = 1

\* compute_weighted_averages returned scenario rows and aggregate rows for
\* an overrides mapping
C9_Witness ==
    /\ stage = "compute_weighted_averages"
    /\ overrides # <<>>
    /\ \E i, j \in DOMAIN result.rows :
        /\ "key" \notin DOMAIN result.rows[i]
        /\ Cell(result.rows[j], "key") = <<"overall">>
        /\ Cell(result.rows[j], "hp_technology") = <<"GSHP">>

\* the tidy rows of one technology, baseline and geography
TidyRows(bt, ht, geo) ==
    {i \in DOMAIN result.rows :
        /\ result.rows[i][<<"baseline_tech">>] = bt
        /\ result.rows[i][<<"hp_tech">>] = ht
        /\ result.rows[i][<<"geography">>] = geo}

TidyBaselines ==
    {"natural_gas_furnace", "propane_furnace", "all_fossil_fuels"}

TidyGeographies ==
    {"Zone 4", "Zone 5", "Zone 6", "Statewide"}

\* C10: build_tidy_results(compute_savings()) returns 24 rows, 12 for each
\* hp_tech: per technology one row for each of the 3 baselines in each of
\* the 3 zones and Statewide, that is 6 scenario rows, 2 Statewide rows by
\* fuel, 3 all_fossil_fuels zone rows and 1 all_fossil_fuels Statewide row;
\* no two rows share (baseline_tech, hp_tech, geography).
C10_TidyRows ==
    stage = "build_tidy_results"
    => /\ Len(result.rows) = 24
       /\ \A ht \in {"ccASHP", "GSHP"} :
            /\ Cardinality({i \in DOMAIN result.rows :
                               result.rows[i][<<"hp_tech">>] = ht}) = 12
            /\ \A bt \in TidyBaselines : \A geo \in TidyGeographies :
                Cardinality(TidyRows(bt, ht, geo)) = 1
       /\ \A i, j \in DOMAIN result.rows :
            /\ result.rows[i][<<"baseline_tech">>] = result.rows[j][<<"baseline_tech">>]
            /\ result.rows[i][<<"hp_tech">>] = result.rows[j][<<"hp_tech">>]
            /\ result.rows[i][<<"geography">>] = result.rows[j][<<"geography">>]
            => i = j

\* build_tidy_results returned its rows, the last one the statewide row of
\* all fossil fuels for GSHP
C10_Witness ==
    /\ stage = "build_tidy_results"
    /\ called = "build_tidy_results"
    /\ Len(result.rows) > 0
    /\ result.rows[Len(result.rows)][<<"baseline_tech">>] = "all_fossil_fuels"
    /\ result.rows[Len(result.rows)][<<"hp_tech">>] = "GSHP"
    /\ result.rows[Len(result.rows)][<<"geography">>] = "Statewide"

\* out holds every cell of df: the same rows in the same order, and on
\* every row the value (or null) of every column of df
Preserved(df, out) ==
    /\ df.columns \subseteq out.columns
    /\ Len(out.rows) = Len(df.rows)
    /\ \A i \in DOMAIN df.rows :
        \A col \in df.columns :
            Cell(out.rows[i], col) = Cell(df.rows[i], col)

\* out restricted to the columns of df
Restricted(out, df) ==
    [columns |-> out.columns \cap df.columns,
     rows |-> Rows([i \in DOMAIN out.rows |->
                [col \in DOMAIN out.rows[i] \cap df.columns |-> out.rows[i][col]]])]

\* what the stage function after the one that has returned returns for the
\* table df it gets from it; compute_savings applies the overrides first
NextStage(df) ==
    CASE stage = "build_scenario_table" -> compute_building_geometry(df)
      [] stage = "compute_building_geometry" -> compute_heat_loss_rates(df)
      [] stage = "compute_heat_loss_rates" -> compute_yearly_btu(df)
      [] stage = "compute_yearly_btu" -> compute_system_sizing(df, cfg)
      [] stage = "compute_system_sizing" -> compute_baseline_costs(df, cfg)
      [] stage = "compute_baseline_costs" -> compute_heat_pump_costs(df, cfg)
      [] stage = "compute_heat_pump_costs"
            -> compute_savings(apply_overrides(df, EffectiveOverrides))

\* the stage functions that have a stage function after them
EarlierStages ==
    StageFunctions \ {"compute_savings"}

\* C11 as stated: the output of each stage after build_scenario_table,
\* restricted to the columns of the output of the stage before it, equals
\* that output.
C11_AsStated ==
    stage \in EarlierStages
    => LET out == NextStage(result) IN Preserved(result, out)

\* C11: every stage from compute_building_geometry to
\* compute_heat_pump_costs returns the table of the stage before it with
\* columns added; compute_savings returns the table of
\* compute_heat_pump_costs with the overrides applied to it once more, and
\* columns added: a cell it changes is an overridden one and holds the
\* override value.
C11_StagesOnlyAddColumns ==
    stage \in EarlierStages
    => LET out == NextStage(result)
           kept == Restricted(out, result)
       IN  /\ result.columns \subseteq out.columns
           /\ IF stage = "compute_heat_pump_costs"
              THEN OverridesApplied(result, kept, EffectiveOverrides)
              ELSE Preserved(result, kept)

\* compute_savings returned, beside its own columns, a computed column with
\* the override value on the rows of the key and the computed values
\* elsewhere
C11_Witness ==
    /\ stage = "compute_savings"
    /\ called # "run_model"
    /\ "present_value_15yr" \in result.columns
    /\ \E i, j \in DOMAIN result.rows :
        /\ OverrideValues(overrides, result.rows[i], "yearly_btu") = {50000000}
        /\ result.rows[i]["yearly_btu"] = 50000000
        /\ result.rows[j]["yearly_btu"] # 50000000
        /\ result.rows[j]["heat_loss_attic"] > 0

\* no entry of ov names a column of df under a key that a row of df has
NoEffect(df, ov) ==
    \A k \in DOMAIN ov : \A m \in DOMAIN ov[k].params :
        \/ ov[k].params[m][1] \notin df.columns
        \/ \A i \in DOMAIN df.rows :
            ~(df.rows[i]["fuel"] = ov[k].fuel /\ df.rows[i]["zone"] = ov[k].zone)

\* C12: _apply_overrides returns the table unchanged when every override
\* names a column the table does not have or a (fuel, zone) key no row has,
\* and when the overrides are None or empty; it raises no error.  Both calls
\* of _apply_overrides are covered: the one that ends build_scenario_table
\* and the one on the table compute_heat_pump_costs returned.
C12_IgnoredOverrides ==
    /\ stage = "build_scenario_table"
       => LET df == build_scenario_table(cfg, <<>>)
          IN  NoEffect(df, EffectiveOverrides) => result = df
    /\ stage = "compute_heat_pump_costs"
       => (NoEffect(result, EffectiveOverrides)
           => apply_overrides(result, EffectiveOverrides) = result)

\* build_scenario_table returned for an override of a column it does not
\* have yet and an override under a key that no row has, and shows neither
C12_Witness ==
    /\ stage = "build_scenario_table"
    /\ called # "run_model"
    /\ Len(overrides) = 2
    /\ NoEffect(build_scenario_table(cfg, <<>>), overrides)
    /\ \E k, l \in DOMAIN overrides :
        /\ overrides[k].zone = "4" /\ overrides[k].params[1][1] = "yearly_btu"
        /\ overrides[l].zone = "7" /\ overrides[l].params[1][1] = "hdd"
    /\ "yearly_btu" \notin result.columns
    /\ \A i \in DOMAIN result.rows :
        "yearly_btu" \notin DOMAIN result.rows[i] /\ result.rows[i]["hdd"] # 7000

\* the amount of the first record among recs that matches county by
\* rkey = county[key], 0 when there is none
AmountOrZero(county, recs, key, rkey, field) ==
    LET P(x) == x[rkey] = county[key]
        hits == FilterSeq(recs, P)
    IN  IF hits = <<>> THEN 0 ELSE hits[1][field]

\* sum(amount * share) / sum(share) over the counties cs, the amounts given
\* per county as the sequence amounts
ShareWeighted(cs, amounts) ==
    SumSeq([i \in DOMAIN cs |-> amounts[i] * cs[i].new_construction_share])
    \div SumSeq([i \in DOMAIN cs |-> cs[i].new_construction_share])

\* the HPWH rebate of zone z: every county of the zone with the amount of
\* its electric utility, 0 without a record
ExpectedHpwhRebate(c, z) ==
    LET cs == CountiesOfZone(load_counties(c), z)
        IsHpwh(r) == r.technology = "HPWH"
        recs == FilterSeq(load_utility_rebates(c), IsHpwh)
    IN  ShareWeighted(cs, [i \in DOMAIN cs |->
            AmountOrZero(cs[i], recs, "electric_utility", "utility", "amount")])

\* the GSHP new construction rebate of zone z, per project
ExpectedGshpRebate(c, z) ==
    LET cs == CountiesOfZone(load_counties(c), z)
        IsGshpNew(r) == /\ r.technology = "GSHP"
                        /\ "project_type" \in DOMAIN r
                        /\ r.project_type = "new_construction"
        filtered == FilterSeq(load_utility_rebates(c), IsGshpNew)
        recs == [i \in DOMAIN filtered |->
                    [utility |-> filtered[i].utility,
                     amount |-> rebate_per_project(filtered[i], 5)]]
    IN  ShareWeighted(cs, [i \in DOMAIN cs |->
            AmountOrZero(cs[i], recs, "electric_utility", "utility", "amount")])

\* the service line cost of zone z: the gas-served counties of the zone
\* with the cost of their gas utility, 0 without a record
ExpectedServiceLineCost(c, z) ==
    LET HasGas(r) == "gas_utility" \in DOMAIN r
        cs == FilterSeq(CountiesOfZone(load_counties(c), z), HasGas)
    IN  ShareWeighted(cs, [i \in DOMAIN cs |->
            AmountOrZero(cs[i], load_service_line_costs(c), "gas_utility",
                         "gas_utility", "avg_service_line_cost")])

\* C13: in the zone blends a county whose utility has no rebate record, and
\* a gas-served county whose gas utility has no service-line record,
\* counts with amount 0 and with its weight in the denominator; hpwh_rebate,
\* gshp_rebate and service_line_cost are non-null on every scenario row of
\* the output of compute_heat_pump_costs and hold these blends.
C13_LookupMiss ==
    stage = "compute_heat_pump_costs"
    => \A i \in DOMAIN result.rows :
        LET r == result.rows[i]
        IN  /\ Cell(r, "hpwh_rebate") = <<ExpectedHpwhRebate(cfg, r["zone"])>>
            /\ Cell(r, "gshp_rebate")
                = <<IF r["hp_technology"] = "GSHP"
                    THEN ExpectedGshpRebate(cfg, r["zone"]) ELSE 0>>
            /\ Cell(r, "service_line_cost")
                = <<IF r["fuel"] = "propane"
                    THEN 0 ELSE ExpectedServiceLineCost(cfg, r["zone"])>>

\* the counties of zone z, among those P holds of, have a utility with a
\* record and one without
HitAndMiss(c, z, recs, key, rkey) ==
    \E i, j \in DOMAIN load_counties(c) :
        /\ load_counties(c)[i].zone = z /\ load_counties(c)[j].zone = z
        /\ key \in DOMAIN load_counties(c)[i] /\ key \in DOMAIN load_counties(c)[j]
        /\ \E k \in DOMAIN recs : recs[k][rkey] = load_counties(c)[i][key]
        /\ \A k \in DOMAIN recs : recs[k][rkey] # load_counties(c)[j][key]

\* compute_heat_pump_costs returned a natural-gas row of a zone with a gas
\* utility without a service-line record and an electric utility without an
\* HPWH record: both blends lie below the amounts of the utilities that have
\* a record
C13_Witness ==
    /\ stage = "compute_heat_pump_costs"
    /\ \E i \in DOMAIN result.rows :
        LET r == result.rows[i]
            IsHpwh(x) == x.technology = "HPWH"
        IN  /\ r["fuel"] = "natural_gas" /\ r["zone"] = "4"
            /\ HitAndMiss(cfg, "4", load_service_line_costs(cfg),
                          "gas_utility", "gas_utility")
            /\ HitAndMiss(cfg, "4", FilterSeq(load_utility_rebates(cfg), IsHpwh),
                          "electric_utility", "utility")
            /\ r["service_line_cost"] = 4500
            /\ r["hpwh_rebate"] = 750


\* the counties that take part in the service-line blend
GasServed(c) ==
    LET HasGas(r) == "gas_utility" \in DOMAIN r
    IN  FilterSeq(load_counties(c), HasGas)

\* the zone_weight values of the counties of zone z among recs sum to 1
WeightsSumToOne(recs, z) ==
    LET cs == CountiesOfZone(recs, z)
    IN  SumSeq([i \in DOMAIN cs |-> ZoneWeight(recs, cs[i])]) = 100

\* the design temperature of zone z: every county of the zone weighted by
\* its share of the zone's new construction
ExpectedDesignTemp(c, z) ==
    LET cs == CountiesOfZone(load_counties(c), z)
    IN  ShareWeighted(cs, [i \in DOMAIN cs |-> cs[i].design_temp_f])

EmptyZone(c) ==
    \E i \in DOMAIN ZONES : ZoneTotal(load_counties(c), ZONES[i]) = 0

\* the functions that blend county data by zone, themselves or in a
\* function they call
UsesZoneBlends ==
    Callable \ {"build_scenario_table", "compute_building_geometry",
                "compute_heat_loss_rates", "compute_yearly_btu"}

\* C15: if the new_construction_share of the counties of a zone sums to
\* zero, or the zone has no counties, the pipeline stops with a fatal
\* configuration error: no function that blends by zone returns a table.
C15_FatalConfigurationError ==
    (EmptyZone(cfg) /\ called \in UsesZoneBlends)
    => ~(stage = called /\ result # NoTable)


\* the keys of model_params.yaml that the stages read by name
RequiredModelParams ==
    {"propane_tank_cost", "ny_geo_tax_credit_rate", "ny_geo_tax_credit_cap",
     "federal_25d_rate"}

\* C16: a required configuration key that is missing is reported when the
\* configuration is loaded, before any stage is computed, and the pipeline
\* returns no table: with a key missing no function ever holds a table.
C16_ReportedAtLoad ==
    ~(RequiredModelParams \subseteq DOMAIN load_model_params(cfg))
    => result = NoTable


\* the call of _recalculate_workbook is over
HarnessDone ==
    harness.pc \in {"returned", "pytest.fail", "TimeoutExpired"}

\* the engine was started and did not deliver: it exited with a non-zero
\* status, or left no output file, or ran into the timeout
EngineFailed ==
    \/ harness.pc = "TimeoutExpired"
    \/ /\ harness.process # <<>>
       /\ \/ harness.process[1].returncode # 0
          \/ "output/workbook.xlsx" \notin DOMAIN harness.files

\* the failure report holds the text (an empty text needs no place in it)
Reports(text) ==
    \/ text = ""
    \/ \E i \in DOMAIN harness.outcome[1].message :
        harness.outcome[1].message[i] = text

\* C17: _recalculate_workbook returns a RecalculatedWorkbook only when the
\* engine exited with status 0 and the recalculated file exists in the
\* output directory; on a non-zero exit status, a missing output file or a
\* timeout the run fails with the captured stdout and stderr in its report,
\* and no workbook is returned.
C17_RecalculateWorkbook ==
    HarnessDone
    => /\ harness.pc = "returned"
          => /\ harness.process[1].returncode = 0
             /\ "output/workbook.xlsx" \in DOMAIN harness.files
       /\ EngineFailed
          => /\ harness.pc # "returned"
             /\ harness.outcome[1].kind # "RecalculatedWorkbook"
             /\ \/ harness.process # <<>>
                   /\ Reports(harness.process[1].stdout)
                   /\ Reports(harness.process[1].stderr)
                \/ harness.process = <<>>
                   /\ Reports(harness.outcome[1].stdout)
                   /\ Reports(harness.outcome[1].stderr)


\* C18: on every row of the output of compute_heat_pump_costs,
\* hp_equipment_total is the net cost of the row's technology
\* (ccashp_net_cost on ccASHP rows, gshp_net_cost on GSHP rows) plus
\* hpwh_net_cost, and hp_yearly_operating_total is the operating cost of the
\* row's technology plus hpwh_yearly_operating_cost.
C18_HeatPumpTotals ==
    stage = "compute_heat_pump_costs"
    => \A i \in DOMAIN result.rows :
        LET r == result.rows[i]
            tech == r["hp_technology"]
        IN  /\ tech \in {"ccASHP", "GSHP"}
            /\ Cell(r, "hp_equipment_total")
                = <<(IF tech = "ccASHP" THEN r["ccashp_net_cost"]
                     ELSE r["gshp_net_cost"]) + r["hpwh_net_cost"]>>
            /\ Cell(r, "hp_yearly_operating_total")
                = <<(IF tech = "ccASHP" THEN r["ccashp_yearly_operating_cost"]
                     ELSE r["gshp_yearly_operating_cost"])
                    + r["hpwh_yearly_operating_cost"]>>

\* compute_heat_pump_costs returned, under overrides, a ccASHP row and a
\* GSHP row of one scenario whose technologies differ in net cost and in
\* operating cost, with a water heater that costs to buy and to run
C18_Witness ==
    /\ stage = "compute_heat_pump_costs"
    /\ overrides # <<>> /\ called # "run_model"
    /\ \E i, j \in DOMAIN result.rows :
        LET r == result.rows[i]
            g == result.rows[j]
        IN  /\ r["hp_technology"] = "ccASHP" /\ g["hp_technology"] = "GSHP"
            /\ r["fuel"] = g["fuel"] /\ r["zone"] = g["zone"]
            /\ r["ccashp_net_cost"] # g["gshp_net_cost"]
            /\ r["ccashp_yearly_operating_cost"] # g["gshp_yearly_operating_cost"]
            /\ r["hpwh_net_cost"] > 0 /\ r["hpwh_yearly_operating_cost"] > 0
            /\ r["hp_equipment_total"] # g["hp_equipment_total"]
            /\ r["hp_yearly_operating_total"] # g["hp_yearly_operating_total"]


\* C19: in the output of compute_baseline_costs, service_line_cost is 0 on
\* every propane row and the blended cost of the row's zone on every
\* natural-gas row, and baseline_equipment_with_service_line equals
\* baseline_equipment_total + service_line_cost on every row.
C19_ServiceLine ==
    stage = "compute_baseline_costs"
    => \A i \in DOMAIN result.rows :
        LET r == result.rows[i]
            blended == compute_zone_service_line_costs(cfg)
        IN  /\ r["fuel"] \in {"propane", "natural_gas"}
            /\ r["fuel"] = "propane" => Cell(r, "service_line_cost") = <<0>>
            /\ r["fuel"] = "natural_gas"
               => /\ r["zone"] \in DOMAIN blended
                  /\ Cell(r, "service_line_cost")
                        = <<blended[r["zone"]].service_line_cost>>
            /\ Cell(r, "baseline_equipment_with_service_line")
                = <<r["baseline_equipment_total"] + r["service_line_cost"]>>

\* compute_baseline_costs returned, under overrides, a propane row and a
\* natural-gas row of one zone and technology: the blended service line
\* cost of the zone is positive, the propane row holds 0 and its two
\* equipment totals are equal, the natural-gas row's differ
C19_Witness ==
    /\ stage = "compute_baseline_costs"
    /\ overrides # <<>> /\ called # "run_model"
    /\ \E i, j \in DOMAIN result.rows :
        LET p == result.rows[i]
            g == result.rows[j]
        IN  /\ p["fuel"] = "propane" /\ g["fuel"] = "natural_gas"
            /\ p["zone"] = g["zone"] /\ p["hp_technology"] = g["hp_technology"]
            /\ compute_zone_service_line_costs(cfg)[p["zone"]].service_line_cost > 0
            /\ p["service_line_cost"] = 0
            /\ g["service_line_cost"] > 0
            /\ p["baseline_equipment_with_service_line"] = p["baseline_equipment_total"]
            /\ g["baseline_equipment_with_service_line"] > g["baseline_equipment_total"]


\* the scenario rows (null key) of technology t in the result whose column
\* col holds v
ScenarioRowsWith(t, col, v) ==
    LET P(r) == /\ "key" \notin DOMAIN r
                /\ r["hp_technology"] = t
                /\ r[col] = v
    IN  FilterSeq(result.rows, P)

\* sum(x * w) / sum(w) over rows, x = total_yearly_savings_with_service_line
\* and w the sequence of the weights of the rows
WeightedMean(rows, w) ==
    SumSeq([i \in DOMAIN rows |->
                rows[i]["total_yearly_savings_with_service_line"] * w[i]])
    \div SumSeq(w)

\* the aggregate row of technology t with key k
AggregateRow(t, k) ==
    LET P(r) == Cell(r, "key") = <<k>> /\ r["hp_technology"] = t
    IN  FilterSeq(result.rows, P)[1]

\* C20: in the output of compute_weighted_averages, for each technology and
\* with x = total_yearly_savings_with_service_line: the by-fuel value is
\* sum(x * pct_new_construction_in_zone) / sum(pct_new_construction_in_zone)
\* over the 3 zone rows of the fuel, the by-zone value is
\* sum(x * pct_ff_using_fuel) / sum(pct_ff_using_fuel) over the 2 fuel rows
\* of the zone, and the overall value is sum(x * w) / sum(w) over the 6 rows
\* with w = pct_ff_using_fuel * pct_new_construction_in_zone; only rows of
\* the technology itself enter.
C20_AggregationWeighting ==
    stage = "compute_weighted_averages"
    => \A t \in {"ccASHP", "GSHP"} :
        /\ \A f \in {"natural_gas", "propane"} :
            LET rows == ScenarioRowsWith(t, "fuel", f)
            IN  /\ Len(rows) = 3
                /\ Cell(AggregateRow(t, f), "weighted_statewide_savings_by_fuel")
                    = <<WeightedMean(rows, [i \in DOMAIN rows |->
                            rows[i]["pct_new_construction_in_zone"]])>>
        /\ \A z \in {"4", "5", "6"} :
            LET rows == ScenarioRowsWith(t, "zone", z)
            IN  /\ Len(rows) = 2
                /\ Cell(AggregateRow(t, z), "weighted_zonewide_savings")
                    = <<WeightedMean(rows, [i \in DOMAIN rows |->
                            rows[i]["pct_ff_using_fuel"]])>>
        /\ LET rows == ScenarioRowsWith(t, "hp_technology", t)
           IN  /\ Len(rows) = 6
               /\ Cell(AggregateRow(t, "overall"), "weighted_statewide_savings")
                    = <<WeightedMean(rows, [i \in DOMAIN rows |->
                            Pct(rows[i]["pct_ff_using_fuel"],
                                rows[i]["pct_new_construction_in_zone"])])>>

\* compute_weighted_averages returned, under overrides, aggregates of two
\* technologies that differ, over rows whose savings and whose weights
\* differ within the group
C20_Witness ==
    /\ stage = "compute_weighted_averages"
    /\ overrides # <<>>
    /\ AggregateRow("ccASHP", "natural_gas")["weighted_statewide_savings_by_fuel"]
        # AggregateRow("GSHP", "natural_gas")["weighted_statewide_savings_by_fuel"]
    /\ AggregateRow("ccASHP", "4")["weighted_zonewide_savings"]
        # AggregateRow("GSHP", "4")["weighted_zonewide_savings"]
    /\ LET rows == ScenarioRowsWith("ccASHP", "fuel", "natural_gas")
       IN  \E i, j \in DOMAIN rows :
            /\ rows[i]["pct_new_construction_in_zone"]
                # rows[j]["pct_new_construction_in_zone"]
            /\ rows[i]["total_yearly_savings_with_service_line"]
                # rows[j]["total_yearly_savings_with_service_line"]
    /\ LET rows == ScenarioRowsWith("ccASHP", "zone", "4")
       IN  /\ rows[1]["pct_ff_using_fuel"] # rows[2]["pct_ff_using_fuel"]
           /\ rows[1]["total_yearly_savings_with_service_line"]
                # rows[2]["total_yearly_savings_with_service_line"]


\* C21: on every propane row of the output of compute_baseline_costs, for
\* any overrides, gas_tank_cost equals the row's propane_tank_cost and
\* furnace_installed_cost equals furnace_equipment_cost plus that value; on
\* natural-gas rows gas_tank_cost is 0 and furnace_installed_cost equals
\* furnace_equipment_cost.
C21_GasTankCost ==
    stage = "compute_baseline_costs"
    => \A i \in DOMAIN result.rows :
        LET r == result.rows[i]
        IN  IF r["fuel"] = "propane"
            THEN /\ Cell(r, "gas_tank_cost") = Cell(r, "propane_tank_cost")
                 /\ Cell(r, "furnace_installed_cost")
                        = <<r["furnace_equipment_cost"] + r["propane_tank_cost"]>>
            ELSE /\ Cell(r, "gas_tank_cost") = <<0>>
                 /\ Cell(r, "furnace_installed_cost")
                        = Cell(r, "furnace_equipment_cost")


\* C22: on every GSHP row of the output of compute_heat_pump_costs, for any
\* overrides, gshp_ny_tax_credit equals min(ny_geo_tax_credit_rate *
\* gshp_equipment_cost, ny_geo_tax_credit_cap) and gshp_federal_tax_credit
\* equals federal_25d_rate * gshp_equipment_cost without a cap, with the
\* row's values of the three parameters.
C22_GshpTaxCredits ==
    stage = "compute_heat_pump_costs"
    => \A i \in DOMAIN result.rows :
        LET r == result.rows[i]
        IN  r["hp_technology"] = "GSHP"
            => /\ Cell(r, "gshp_ny_tax_credit")
                    = <<Min2(Pct(r["gshp_equipment_cost"],
                                 r["ny_geo_tax_credit_rate"]),
                             r["ny_geo_tax_credit_cap"])>>
               /\ Cell(r, "gshp_federal_tax_credit")
                    = <<Pct(r["gshp_equipment_cost"], r["federal_25d_rate"])>>


\* the rebate records the GSHP blend uses
GshpNewConstruction(c) ==
    LET P(r) == /\ r.technology = "GSHP"
                /\ "project_type" \in DOMAIN r
                /\ r.project_type = "new_construction"
    IN  FilterSeq(load_utility_rebates(c), P)

\* the system tons of the GSHP of equipment.yaml
GshpTons(c) ==
    LET P(e) == e.device = "GSHP"
    IN  ParseTons(FilterSeq(load_equipment(c), P)[1].size)

\* what a record contributes per project
PerProject(r, tons) ==
    CASE r.unit = "$/ton" /\ "cap" \in DOMAIN r /\ r.amount * tons > r.cap -> r.cap
      [] r.unit = "$/ton" /\ "cap" \in DOMAIN r /\ r.amount * tons <= r.cap
            -> r.amount * tons
      [] r.unit = "$/ton" /\ "cap" \notin DOMAIN r -> r.amount * tons
      [] OTHER -> r.amount

\* the blend of zone z over the converted records
GshpBlend(c, z) ==
    LET cs == CountiesOfZone(load_counties(c), z)
        used == GshpNewConstruction(c)
        recs == [i \in DOMAIN used |->
                    [utility |-> used[i].utility,
                     amount |-> PerProject(used[i], GshpTons(c))]]
    IN  ShareWeighted(cs, [i \in DOMAIN cs |->
            AmountOrZero(cs[i], recs, "electric_utility", "utility", "amount")])

\* C23: _compute_zone_gshp_rebates uses only the rebate records with
\* technology GSHP and project_type new_construction; a $/ton record
\* contributes min(amount * system tons, cap) per project, amount * system
\* tons when it has no cap, a record of another unit its amount; the
\* conversion comes before the zone blending.  The GSHP rows of the output
\* of compute_heat_pump_costs hold that blend.
C23_GshpRebateRecords ==
    stage = "compute_heat_pump_costs"
    => /\ \A z \in ZonesOf(load_counties(cfg)) :
            compute_zone_gshp_rebates(cfg)[z].gshp_rebate = GshpBlend(cfg, z)
       /\ \A i \in DOMAIN result.rows :
            result.rows[i]["hp_technology"] = "GSHP"
            => Cell(result.rows[i], "gshp_rebate")
                = <<GshpBlend(cfg, result.rows[i]["zone"])>>

\* compute_heat_pump_costs returned a GSHP row of zone 4, whose utilities
\* have a flat new-construction record and a $/ton record with a cap below
\* amount * tons; the rebate file also holds a $/ton record without a cap,
\* a GSHP retrofit record and records of other technologies
C23_Witness ==
    /\ stage = "compute_heat_pump_costs"
    /\ \E i \in DOMAIN result.rows :
        /\ result.rows[i]["hp_technology"] = "GSHP"
        /\ result.rows[i]["zone"] = "4"
        /\ result.rows[i]["gshp_rebate"]
            = (75 * cfg.coned_gshp_rebate + 25 * 8000) \div 100
    /\ LET recs == load_utility_rebates(cfg)
       IN  /\ \E k \in DOMAIN recs :
                /\ recs[k].technology = "GSHP" /\ recs[k].unit = "$/ton"
                /\ "cap" \in DOMAIN recs[k]
                /\ recs[k].amount * GshpTons(cfg) > recs[k].cap
           /\ \E k \in DOMAIN recs :
                /\ recs[k].technology = "GSHP" /\ recs[k].unit = "$/ton"
                /\ "cap" \notin DOMAIN recs[k]
           /\ \E k \in DOMAIN recs :
                /\ recs[k].technology = "GSHP"
                /\ "project_type" \in DOMAIN recs[k]
                /\ recs[k].project_type = "retrofit"
           /\ \E k \in DOMAIN recs : recs[k].technology = "HPWH"


\* the stages up to the baseline costs
BaselineStages ==
    {"build_scenario_table", "compute_building_geometry",
     "compute_heat_loss_rates", "compute_yearly_btu", "compute_system_sizing",
     "compute_baseline_costs"}

\* C24: for every (fuel, zone) and any overrides, the ccASHP row and the
\* GSHP row of the output of compute_baseline_costs, and of the stages
\* before it, are equal in every column except hp_technology.
C24_BaselineIndependence ==
    stage \in BaselineStages
    => \A i, j \in DOMAIN result.rows :
        (/\ result.rows[i]["hp_technology"] = "ccASHP"
         /\ result.rows[j]["hp_technology"] = "GSHP"
         /\ result.rows[i]["fuel"] = result.rows[j]["fuel"]
         /\ result.rows[i]["zone"] = result.rows[j]["zone"])
        => \A col \in result.columns \ {"hp_technology"} :
            Cell(result.rows[i], col) = Cell(result.rows[j], col)

\* compute_baseline_costs returned, under an override of hdd for one
\* scenario, the ccASHP row and the GSHP row of that scenario, both with the
\* overridden hdd and with baseline costs that differ from those of the
\* same fuel in another zone
C24_Witness ==
    /\ stage = "compute_baseline_costs"
    /\ called # "run_model"
    /\ \E i, j, k \in DOMAIN result.rows :
        /\ result.rows[i]["hp_technology"] = "ccASHP"
        /\ result.rows[j]["hp_technology"] = "GSHP"
        /\ result.rows[i]["fuel"] = result.rows[j]["fuel"]
        /\ result.rows[i]["zone"] = result.rows[j]["zone"]
        /\ OverrideValues(overrides, result.rows[i], "hdd") = {7000}
        /\ result.rows[i]["hdd"] = 7000 /\ result.rows[j]["hdd"] = 7000
        /\ result.rows[k]["fuel"] = result.rows[i]["fuel"]
        /\ result.rows[k]["hdd"] # 7000
        /\ result.rows[k]["baseline_yearly_operating"]
            # result.rows[i]["baseline_yearly_operating"]


\* C25: for any sequence of calls of the recalculate factory within one
\* test, calls after a failed one included, each call works in a fresh
\* subdirectory of its own, the workbook at WORKBOOK_PATH is never written,
\* and every RecalculatedWorkbook the factory created is closed at teardown.
C25_HarnessIsolation ==
    "calls" \in DOMAIN harness
    => /\ \A k \in DOMAIN harness.calls :
            /\ harness.calls[k].outcome # "FileExistsError"
            /\ \A l \in DOMAIN harness.calls :
                k # l => harness.calls[k].subdir # harness.calls[l].subdir
       /\ ~harness.workbook_written
       /\ harness.pc = "done"
          => \A k \in DOMAIN harness.created :
                harness.created[k].closed /\ ~harness.created[k].wb_open


\* the first of the rows S of a table
FirstMatch(S) ==
    CHOOSE i \in S : \A j \in S : i <= j

\* the rows a lookup by (fuel, zone) alone matches
RowsOfScenario(f, z) ==
    {i \in DOMAIN result.rows :
        /\ "key" \notin DOMAIN result.rows[i]
        /\ result.rows[i]["fuel"] = f
        /\ result.rows[i]["zone"] = z}

\* the rows a lookup by key alone matches
RowsOfKey(k) ==
    {i \in DOMAIN result.rows : Cell(result.rows[i], "key") = <<k>>}

TidyValue(tidy, bt, ht, geo, col) ==
    LET i == CHOOSE j \in DOMAIN tidy.rows :
                /\ tidy.rows[j][<<"baseline_tech">>] = bt
                /\ tidy.rows[j][<<"hp_tech">>] = ht
                /\ tidy.rows[j][<<"geography">>] = geo
    IN  tidy.rows[i][col]

\* a value in cents is the value v, kept in whole dollars, rounded to 2
\* decimals
RoundedOf(cents, v) ==
    100 * v <= cents /\ cents <= 100 * v + 100

\* a present value in cents is the present value pv, the annuity factor f
\* (in hundredths) applied to savings kept in whole dollars, rounded to 2
\* decimals
RoundedPvOf(cents, pv, f) ==
    100 * pv - 100 <= cents /\ cents <= 100 * pv + f + 100

\* the yearly total savings of the aggregate rows of the tidy table are the
\* savings of the aggregates aggs of compute_weighted_averages
YearlySavingsAgree(tidy, aggs, tech) ==
    LET col == <<"delta", "yearly_total_savings", "dollars_per_year">>
    IN  /\ \A i \in DOMAIN aggs.fuel_agg :
            RoundedOf(TidyValue(tidy, aggs.fuel_agg[i]["key"] \o "_furnace",
                                tech, "Statewide", col),
                      aggs.fuel_agg[i]["weighted_statewide_savings_by_fuel"])
        /\ \A i \in DOMAIN aggs.zone_agg :
            RoundedOf(TidyValue(tidy, "all_fossil_fuels", tech,
                                "Zone " \o aggs.zone_agg[i]["key"], col),
                      aggs.zone_agg[i]["weighted_zonewide_savings"])
        /\ RoundedOf(TidyValue(tidy, "all_fossil_fuels", tech, "Statewide", col),
                     aggs.overall_agg[1]["weighted_statewide_savings"])

\* the present value of the Statewide all_fossil_fuels row is
\* weighted_statewide_pv; f is the annuity factor of compute_weighted_averages
PresentValuesAgree(tidy, aggs, tech, f) ==
    RoundedPvOf(TidyValue(tidy, "all_fossil_fuels", tech, "Statewide",
                          <<"delta", "present_value_15yr", "dollars_pv">>),
                aggs.overall_agg[1]["weighted_statewide_pv"], f)

\* the annuity factor compute_weighted_averages takes for tech
OverallPvFactor(savings, tech) ==
    LET first == TechRows(savings, tech)[1]
    IN  pv_annuity_factor(first["discount_rate"], first["analysis_period_years"])

\* C27: for each technology and any overrides, the aggregate rows of
\* build_tidy_results(compute_savings(overrides)) carry the yearly total
\* savings of compute_weighted_averages(overrides), by fuel, by zone and
\* overall, and the present value of the Statewide all_fossil_fuels row, a
\* weighted mean of the present values of the scenarios, is
\* weighted_statewide_pv, up to the rounding to 2 decimals.  Stated where
\* compute_savings(overrides) has returned the table both functions get.
C27_AggregationsAgree ==
    stage = "compute_savings" /\ called = "build_tidy_results"
    => LET tidy == build_tidy_results(result, cfg)
           scenarios == weighted_scenarios(result, cfg)
       IN  \A tech \in {"ccASHP", "GSHP"} :
            LET aggs == tech_aggregates(scenarios, tech)
            IN  /\ YearlySavingsAgree(tidy, aggs, tech)
                /\ PresentValuesAgree(tidy, aggs, tech,
                                      OverallPvFactor(result, tech))

\* the part of C27 on the yearly total savings
C27_YearlyPart ==
    stage = "compute_savings" /\ called = "build_tidy_results"
    => LET tidy == build_tidy_results(result, cfg)
           scenarios == weighted_scenarios(result, cfg)
       IN  \A tech \in {"ccASHP", "GSHP"} :
            YearlySavingsAgree(tidy, tech_aggregates(scenarios, tech), tech)


Abs(x) ==
    IF x < 0 THEN 0 - x ELSE x

\* payment is f * principal for f = rate / den, rate and den in hundredths,
\* up to the rounding of slack payments to whole dollars
MultipleOf(payment, principal, rate, den, slack) ==
    Abs(payment * den - rate * principal) < slack * (100 + den)

\* x is zero or has the sign of y
SignOf(x, y) ==
    /\ y > 0 => x >= 0
    /\ y < 0 => x <= 0
    /\ y = 0 => x = 0

TidyColumnsEqual(col1, col2) ==
    \A i \in DOMAIN result.rows : result.rows[i][col1] = result.rows[i][col2]

\* C29: in every row of build_tidy_results(compute_savings(overrides)), for
\* any overrides, delta-construction_savings-dollars equals
\* delta-equipment_cost_incl_service_line-dollars,
\* delta-yearly_mortgage_savings-dollars_per_year equals
\* delta-yearly_mortgage_incl_service_line-dollars_per_year, and
\* delta-yearly_operating_savings-dollars_per_year equals
\* delta-yearly_operating-dollars_per_year.
C29_TidyRowsConsistent ==
    stage = "build_tidy_results"
    => /\ TidyColumnsEqual(<<"delta", "construction_savings", "dollars">>,
                           <<"delta", "equipment_cost_incl_service_line", "dollars">>)
       /\ TidyColumnsEqual(<<"delta", "yearly_mortgage_savings", "dollars_per_year">>,
                           <<"delta", "yearly_mortgage_incl_service_line",
                             "dollars_per_year">>)
       /\ TidyColumnsEqual(<<"delta", "yearly_operating_savings", "dollars_per_year">>,
                           <<"delta", "yearly_operating", "dollars_per_year">>)

\* the parts of C29 on the construction and the operating savings
C29_ConstructionAndOperating ==
    stage = "build_tidy_results"
    => /\ TidyColumnsEqual(<<"delta", "construction_savings", "dollars">>,
                           <<"delta", "equipment_cost_incl_service_line", "dollars">>)
       /\ TidyColumnsEqual(<<"delta", "yearly_operating_savings", "dollars_per_year">>,
                           <<"delta", "yearly_operating", "dollars_per_year">>)

\* the part of C29 on the mortgage savings, for overrides that do not name
\* mortgage_rate
C29_MortgageWithoutRateOverride ==
    (/\ stage = "build_tidy_results"
     /\ \A k \in DOMAIN overrides : \A m \in DOMAIN overrides[k].params :
            overrides[k].params[m][1] # "mortgage_rate")
    => TidyColumnsEqual(<<"delta", "yearly_mortgage_savings", "dollars_per_year">>,
                        <<"delta", "yearly_mortgage_incl_service_line",
                          "dollars_per_year">>)

\* C30: in the parcel and building downloaders main returns exit code 0
\* only when every batch was fetched, so that the saved GeoJSON holds all
\* total_count features: a batch that fails or returns no records does not
\* end in a success exit with a partial file.
C30_DownloadCompleteness ==
    (download.pc = "done" /\ download.exit_code = <<0>>)
    => download.saved = <<1..download.total_count>>

\* C30, termination: the batch loop over the offsets below total_count
\* ends and main returns.
C30_Terminates ==
    download.pc # "none" ~> download.pc = "done"

\* the offsets of the loop are 0, batch_size, 2 * batch_size, ..., and the
\* loop is left at the latest with the first offset not below total_count
C30_Offsets ==
    download.pc \in {"while", "save", "done"}
    => /\ download.offset % BatchSize = 0
       /\ download.offset < download.total_count + BatchSize
       /\ download.batch_num = download.offset \div BatchSize + 1

=============================================================================
